---- MODULE Spec2Model ----
(***************************************************************************)
(* A model of src/worker.ts: the bearer-key middleware, the three routes,  *)
(* the session bootstrap, the request signer and the SSE stream translator *)
(* (chatStream) with its three consumers.                                  *)
(*                                                                         *)
(* Text is modelled by TLA+ strings: TLC evaluates Len, \o, SubSeq, Head   *)
(* and Tail on them, so the JavaScript string operations of the source are *)
(* computed character by character.                                        *)
(***************************************************************************)
EXTENDS Integers, Sequences, FiniteSets, TLC

(***************************************************************************)
(* JavaScript string operations used by the source.                        *)
(***************************************************************************)

\* s.substring(a - 1, b): the characters a..b (1-based), clamped to s.
Sub(s, a, b) ==
  LET lo == IF a < 1 THEN 1 ELSE a
      hi == IF b > Len(s) THEN Len(s) ELSE b
  IN IF lo > hi THEN "" ELSE SubSeq(s, lo, hi)

\* s.charAt(i - 1): the i-th character (1-based), "" outside s.
CharAt(s, i) == Sub(s, i, i)

\* s.startsWith(p)
StartsWith(s, p) == Sub(s, 1, Len(p)) = p

\* s.slice(n) and s.substring(n) for 0 <= n
Slice(s, n) == Sub(s, n + 1, Len(s))

\* The characters String.prototype.trim removes (those the model can hold).
WhiteSpace == {" ", "\t", "\n", "\r"}

RECURSIVE TrimStart(_)
TrimStart(s) ==
  IF s # "" /\ CharAt(s, 1) \in WhiteSpace THEN TrimStart(Tail(s)) ELSE s

RECURSIVE TrimEnd(_)
TrimEnd(s) ==
  IF s # "" /\ CharAt(s, Len(s)) \in WhiteSpace
  THEN TrimEnd(Sub(s, 1, Len(s) - 1))
  ELSE s

\* s.trim()
Trim(s) == TrimEnd(TrimStart(s))

\* The least i >= from with s[i] = c, or 0: s.indexOf(c, from - 1) + 1.
\* The positions of s, from `from` on, that hold the character c.
Occurrences(s, c, from) == {i \in from..Len(s) : SubSeq(s, i, i) = c}

\* The least of a set of positions, 0 for none.
Least(at) == IF at = {} THEN 0 ELSE CHOOSE i \in at : \A j \in at : i <= j

IndexOfChar(s, c, from) ==
  LET at == Occurrences(s, c, from)
  IN IF at = {} THEN 0 ELSE CHOOSE i \in at : \A j \in at : i <= j

RECURSIVE Split(_, _)
Split(s, c) ==
  LET i == IndexOfChar(s, c, 1)
  IN IF i = 0 THEN <<s>>
     ELSE <<Sub(s, 1, i - 1)>> \o Split(Slice(s, i), c)

\* A join that keeps only the last part.
LastOnly(parts) == IF parts = <<>> THEN "" ELSE parts[Len(parts)]

\* parts.join('')
RECURSIVE Join(_)
Join(parts) ==
  IF parts = <<>> THEN "" ELSE Head(parts) \o Join(Tail(parts))

(***************************************************************************)
(* JavaScript values, as JSON.parse builds them.  A value is a record      *)
(* tagged by its type; an object is a function from its keys, an array a   *)
(* sequence.  Numbers keep their literal text.                             *)
(***************************************************************************)
JUndefined == [t |-> "undefined"]
JNull      == [t |-> "null"]
JBool(b)   == [t |-> "boolean", v |-> b]
JNum(txt)  == [t |-> "number", v |-> txt]
JStr(s)    == [t |-> "string", v |-> s]
JArr(a)    == [t |-> "array", v |-> a]
JObj(f)    == [t |-> "object", v |-> f]
\* The completion of an evaluation that raised (SyntaxError, TypeError).
Thrown     == [t |-> "throw"]

Digits == {"0", "1", "2", "3", "4", "5", "6", "7", "8", "9"}

\* A failed parse.
NoParse == [ok |-> FALSE, val |-> JUndefined, pos |-> 0]
Parsed(v, p) == [ok |-> TRUE, val |-> v, pos |-> p]

\* The first index >= i of s that holds no JSON white space.
RECURSIVE SkipWs(_, _)
SkipWs(s, i) ==
  IF i <= Len(s) /\ CharAt(s, i) \in WhiteSpace THEN SkipWs(s, i + 1) ELSE i

\* The first index >= i of s that holds no digit.
RECURSIVE SkipDigits(_, _)
SkipDigits(s, i) ==
  IF i <= Len(s) /\ CharAt(s, i) \in Digits THEN SkipDigits(s, i + 1) ELSE i

\* The characters a JSON string may escape with one letter, and what each
\* stands for (\b, \f and \uXXXX are outside the model's alphabet).
UnescapeChar(c) ==
  CASE c = "\"" -> "\""
    [] c = "\\" -> "\\"
    [] c = "/"  -> "/"
    [] c = "n"  -> "\n"
    [] c = "t"  -> "\t"
    [] c = "r"  -> "\r"
    [] OTHER    -> ""

\* The first index >= i of s that holds a quote or a backslash, or 0.
NextStop(s, i) ==
  Least({j \in i..Len(s) : SubSeq(s, j, j) \in {"\"", "\\"}})

\* Whether raw holds a character a JSON string must escape.
HasControl(raw) ==
  \E j \in 1..Len(raw) : SubSeq(raw, j, j) \in {"\n", "\t", "\r"}

\* The body of a string literal from index i (after the opening quote),
\* acc the text read so far: ends at the closing quote.  The characters up
\* to stop, the next quote or backslash, are read in one step; a raw
\* control character among them, a backslash that escapes nothing, or the
\* end of s before the closing quote, is a failed parse.
RECURSIVE ParseStringBody(_, _, _)
ReadUpTo(s, i, acc, stop) ==
  IF stop = 0 \/ HasControl(Sub(s, i, stop - 1)) THEN NoParse
  ELSE IF CharAt(s, stop) = "\""
  THEN Parsed(JStr(acc \o Sub(s, i, stop - 1)), stop + 1)
  ELSE IF stop + 1 > Len(s) \/ UnescapeChar(CharAt(s, stop + 1)) = ""
  THEN NoParse
  ELSE ParseStringBody(s, stop + 2,
                       acc \o Sub(s, i, stop - 1)
                           \o UnescapeChar(CharAt(s, stop + 1)))

ParseStringBody(s, i, acc) == ReadUpTo(s, i, acc, NextStop(s, i))

RECURSIVE ParseValue(_, _)
RECURSIVE ParseElements(_, _, _)
RECURSIVE ParseMembers(_, _, _)

\* The elements of an array after "[" or ",", acc the elements read so far.
ParseElements(s, i, acc) ==
  LET e == ParseValue(s, i)
  IN IF ~e.ok THEN NoParse
     ELSE LET j == SkipWs(s, e.pos)
              c == CharAt(s, j)
          IN IF c = "]" THEN Parsed(JArr(Append(acc, e.val)), j + 1)
             ELSE IF c = "," THEN ParseElements(s, j + 1, Append(acc, e.val))
             ELSE NoParse

\* The members of an object after "{" or ",", acc the members read so far
\* (a repeated key keeps its last value).
ParseMembers(s, i, acc) ==
  LET k0 == SkipWs(s, i)
  IN IF CharAt(s, k0) # "\"" THEN NoParse
     ELSE LET k == ParseStringBody(s, k0 + 1, "")
          IN IF ~k.ok THEN NoParse
             ELSE LET c0 == SkipWs(s, k.pos)
                  IN IF CharAt(s, c0) # ":" THEN NoParse
                     ELSE LET e == ParseValue(s, c0 + 1)
                          IN IF ~e.ok THEN NoParse
                             ELSE LET j   == SkipWs(s, e.pos)
                                      c   == CharAt(s, j)
                                      new == (k.val.v :> e.val) @@ acc
                                  IN IF c = "}"
                                     THEN Parsed(JObj(new), j + 1)
                                     ELSE IF c = ","
                                     THEN ParseMembers(s, j + 1, new)
                                     ELSE NoParse

\* One JSON value starting at index i of s (white space skipped).
ParseValue(s, i) ==
  LET j == SkipWs(s, i)
      c == CharAt(s, j)
  IN CASE c = "{" ->
            IF CharAt(s, SkipWs(s, j + 1)) = "}"
            THEN Parsed(JObj(<<>>), SkipWs(s, j + 1) + 1)
            ELSE ParseMembers(s, j + 1, <<>>)
       [] c = "[" ->
            IF CharAt(s, SkipWs(s, j + 1)) = "]"
            THEN Parsed(JArr(<<>>), SkipWs(s, j + 1) + 1)
            ELSE ParseElements(s, j + 1, <<>>)
       [] c = "\"" -> ParseStringBody(s, j + 1, "")
       [] Sub(s, j, j + 3) = "null"  -> Parsed(JNull, j + 4)
       [] Sub(s, j, j + 3) = "true"  -> Parsed(JBool(TRUE), j + 4)
       [] Sub(s, j, j + 4) = "false" -> Parsed(JBool(FALSE), j + 5)
       [] c \in Digits ->
            LET e == SkipDigits(s, j)
            IN IF c = "0" /\ e > j + 1 THEN NoParse
               ELSE Parsed(JNum(Sub(s, j, e - 1)), e)
       [] OTHER -> NoParse

\* JSON.parse(s): the value, or Thrown for a SyntaxError.
JSON_parse(s) ==
  LET r == ParseValue(s, 1)
  IN IF r.ok /\ SkipWs(s, r.pos) = Len(s) + 1 THEN r.val ELSE Thrown

\* Whether `if (v)` takes the branch.
Truthy(v) ==
  CASE v.t \in {"undefined", "null", "throw"} -> FALSE
    [] v.t = "boolean" -> v.v
    [] v.t = "number"  -> v.v # "0"
    [] v.t = "string"  -> v.v # ""
    [] OTHER -> TRUE

\* v.key for a property name: a TypeError on null and undefined, the own
\* property of an object, undefined on anything else the model holds.
GetProp(v, key) ==
  CASE v.t = "throw" -> Thrown
    [] v.t \in {"undefined", "null"} -> Thrown
    [] v.t = "object" -> IF key \in DOMAIN v.v THEN v.v[key] ELSE JUndefined
    [] OTHER -> JUndefined

\* v[0]: as v.key, and the first element of an array or character of a string.
GetFirst(v) ==
  CASE v.t = "throw" -> Thrown
    [] v.t \in {"undefined", "null"} -> Thrown
    [] v.t = "array"  -> IF v.v = <<>> THEN JUndefined ELSE v.v[1]
    [] v.t = "string" -> IF v.v = "" THEN JUndefined ELSE JStr(CharAt(v.v, 1))
    [] v.t = "object" -> IF "0" \in DOMAIN v.v THEN v.v["0"] ELSE JUndefined
    [] OTHER -> JUndefined

\* v?.key: undefined on null and undefined instead of a TypeError.
GetPropOpt(v, key) ==
  IF v.t \in {"undefined", "null"} THEN JUndefined ELSE GetProp(v, key)

\* String(v), as `+=` on a string and Array.prototype.join convert v.
ToText(v) ==
  CASE v.t = "string"  -> v.v
    [] v.t = "number"  -> v.v
    [] v.t = "boolean" -> IF v.v THEN "true" ELSE "false"
    [] v.t = "array"   -> IF v.v = <<>> THEN "" ELSE "[array]"
    [] OTHER -> "[object Object]"


(***************************************************************************)
(* Character codes, numbers and the two base64 conversions.                *)
(***************************************************************************)
\* The printable ASCII characters in code order: 32 (space) to 95 (_), and
\* 97 (a) to 126 (~).  Code 96, the grave accent, is left out (a TLA+
\* string cannot hold it).
AsciiLow  == " !\"#$%&'()*+,-./0123456789:;<=>?@ABCDEFGHIJKLMNOPQRSTUVWXYZ[\\]^_"
AsciiHigh == "abcdefghijklmnopqrstuvwxyz{|}~"

\* c.charCodeAt(0) of a printable ASCII character.
Ord(c) ==
  IF IndexOfChar(AsciiLow, c, 1) > 0 THEN IndexOfChar(AsciiLow, c, 1) + 31
  ELSE IndexOfChar(AsciiHigh, c, 1) + 96

\* String.fromCharCode(n), "" when n is not a character of the two tables.
Chr(n) ==
  IF n >= 32 /\ n <= 95 THEN CharAt(AsciiLow, n - 31)
  ELSE IF n >= 97 /\ n <= 126 THEN CharAt(AsciiHigh, n - 96)
  ELSE ""

\* n.toString() of a natural number.
RECURSIVE NumToString(_)
NumToString(n) ==
  IF n < 10 THEN CharAt("0123456789", n + 1)
  ELSE NumToString(n \div 10) \o CharAt("0123456789", (n % 10) + 1)

\* parseInt(s) of a string of digits, acc the value of the digits read.
RECURSIVE ParseDigits(_, _)
ParseDigits(s, acc) ==
  IF s = "" \/ CharAt(s, 1) \notin Digits THEN acc
  ELSE ParseDigits(Tail(s), acc * 10 + (Ord(CharAt(s, 1)) - 48))

parseInt(s) == ParseDigits(s, 0)

B64Alphabet == "ABCDEFGHIJKLMNOPQRSTUVWXYZabcdefghijklmnopqrstuvwxyz0123456789+/"

B64Char(n) == CharAt(B64Alphabet, n + 1)
B64Val(c)  == IndexOfChar(B64Alphabet, c, 1) - 1

\* btoa of a string of ASCII characters (on these, encodeURIComponent and
\* unescape leave the bytes equal to the character codes).
RECURSIVE base64Encode(_)
base64Encode(str) ==
  IF str = "" THEN ""
  ELSE LET b1 == Ord(CharAt(str, 1))
           b2 == IF Len(str) >= 2 THEN Ord(CharAt(str, 2)) ELSE 0
           b3 == IF Len(str) >= 3 THEN Ord(CharAt(str, 3)) ELSE 0
           c1 == B64Char(b1 \div 4)
           c2 == B64Char((b1 % 4) * 16 + (b2 \div 16))
           c3 == B64Char((b2 % 16) * 4 + (b3 \div 64))
           c4 == B64Char(b3 % 64)
       IN IF Len(str) = 1 THEN c1 \o c2 \o "=="
          ELSE IF Len(str) = 2 THEN c1 \o c2 \o c3 \o "="
          ELSE c1 \o c2 \o c3 \o c4 \o base64Encode(Slice(str, 3))

\* Whether every character of s is of the base64 alphabet.
AllB64(s) == \A i \in 1..Len(s) : B64Val(CharAt(s, i)) >= 0

\* The bytes of at most four characters of base64 data, as characters;
\* "\n" stands for a byte that is no printable ASCII character.
B64Group(d) ==
  IF Len(d) < 2 THEN ""
  ELSE LET v1 == B64Val(CharAt(d, 1))
           v2 == B64Val(CharAt(d, 2))
           v3 == IF Len(d) >= 3 THEN B64Val(CharAt(d, 3)) ELSE 0
           v4 == IF Len(d) >= 4 THEN B64Val(CharAt(d, 4)) ELSE 0
           ch(n) == IF Chr(n) = "" THEN "\n" ELSE Chr(n)
           x1 == ch(v1 * 4 + (v2 \div 16))
           x2 == ch((v2 % 16) * 16 + (v3 \div 4))
           x3 == ch((v3 % 4) * 64 + v4)
       IN IF Len(d) = 2 THEN x1
          ELSE IF Len(d) = 3 THEN x1 \o x2
          ELSE x1 \o x2 \o x3

\* The length of the groups of four that make the first half of d.
HalfInGroups(d) == 4 * (((Len(d) \div 4) + 1) \div 2)

\* The bytes of base64 data (padding removed): those of its groups of four
\* characters, in order (the data is halved between two groups until one
\* group is left).
RECURSIVE B64Bytes(_)
B64Bytes(d) ==
  IF Len(d) <= 4 THEN B64Group(d)
  ELSE B64Bytes(Sub(d, 1, HalfInGroups(d)))
       \o B64Bytes(Slice(d, HalfInGroups(d)))

\* atob(str) then decodeURIComponent(escape(...)): the forgiving base64
\* decode (one or two trailing "=" are dropped only from data whose length
\* is a multiple of 4; a length of 1 modulo 4 or a character outside the
\* alphabet raises), then the bytes read as UTF-8.  The result is
\* [ok, text]; bytes outside printable ASCII count as undecodable.
base64Decode(str) ==
  LET n  == Len(str)
      d  == IF n % 4 = 0 /\ n >= 2 /\ Sub(str, n - 1, n) = "=="
            THEN Sub(str, 1, n - 2)
            ELSE IF n % 4 = 0 /\ n >= 1 /\ CharAt(str, n) = "="
            THEN Sub(str, 1, n - 1)
            ELSE str
      ok == Len(d) % 4 # 1 /\ AllB64(d)
      t  == IF ok THEN B64Bytes(d) ELSE ""
  IN IF ok /\ IndexOfChar(t, "\n", 1) = 0
     THEN [ok |-> TRUE, text |-> t]
     ELSE [ok |-> FALSE, text |-> ""]

\* The match of /prod-fe-\d+\.\d+\.\d+/ that starts at index i of html, ""
\* when there is none.
VersionAt(html, i) ==
  LET a == i + 8
      b == SkipDigits(html, a)
      c == SkipDigits(html, b + 1)
      d == SkipDigits(html, c + 1)
  IN IF /\ Sub(html, i, i + 7) = "prod-fe-"
        /\ b > a /\ CharAt(html, b) = "."
        /\ c > b + 1 /\ CharAt(html, c) = "."
        /\ d > c + 1
     THEN Sub(html, i, d - 1)
     ELSE ""

\* html.match(/prod-fe-\d+\.\d+\.\d+/) from index i on: the first match,
\* "" for null (no match starts at index 0, the least of no position).
MatchVersionFrom(html, i) ==
  VersionAt(html, Least({j \in i..Len(html) : VersionAt(html, j) # ""}))

MatchVersion(html) == MatchVersionFrom(html, 1)

\* a.localeCompare(b) < 0 for strings of lower-case letters and "_" whose
\* order is decided by the first differing character.
RECURSIVE StrLess(_, _)
StrLess(a, b) ==
  IF b = "" THEN FALSE
  ELSE IF a = "" THEN TRUE
  ELSE IF CharAt(a, 1) = CharAt(b, 1) THEN StrLess(Tail(a), Tail(b))
  ELSE Ord(CharAt(a, 1)) < Ord(CharAt(b, 1))

\* entries.sort(([a], [b]) => a.localeCompare(b)): insertion sort of
\* <<key, value>> pairs by key.
RECURSIVE InsertEntry(_, _)
InsertEntry(e, sorted) ==
  IF sorted = <<>> THEN <<e>>
  ELSE IF StrLess(e[1], Head(sorted)[1]) THEN <<e>> \o sorted
  ELSE <<Head(sorted)>> \o InsertEntry(e, Tail(sorted))

RECURSIVE SortEntries(_)
SortEntries(es) ==
  IF es = <<>> THEN <<>>
  ELSE InsertEntry(es[Len(es)], SortEntries(SubSeq(es, 1, Len(es) - 1)))

\* items.map(([k, v]) => k + ',' + v).join(',')
RECURSIVE JoinEntries(_)
JoinEntries(es) ==
  IF es = <<>> THEN ""
  ELSE Head(es)[1] \o "," \o Head(es)[2]
       \o (IF Len(es) > 1 THEN "," ELSE "") \o JoinEntries(Tail(es))

(***************************************************************************)
(* The state.  Every request has its own row of each variable: the source  *)
(* keeps no module-level mutable state, only the Env binding API_KEY.      *)
(***************************************************************************)
Requests == {1, 2}

VARIABLES
  API_KEY,   \* c.env.API_KEY; "" when the binding is not configured (falsy)
  request,   \* [r] the inbound request: method, path, Authorization, body
  upstream,  \* [r] what the upstream service answers to this request's calls
  host,      \* [r] what the host gives it: Date.now() and the random ids
  client,    \* [r] whether the client still takes the streamed writes
  pc,        \* [r] where the request's task stands
  response,  \* [r] the Response handed to the client
  calls,     \* [r] the upstream endpoints fetched so far, in order
  session,   \* [r] the ZChatSession of initializeZChat
  signed,    \* [r] what generateZaSignature returned
  reader,    \* [r] response.body.getReader(): its lock and read position,
             \*     and whether a chunk has ended inside a JSON payload
  cs,        \* [r] chatStream's locals: buffer, lines, fullAssistantContent
  yielded,   \* [r] every delta chatStream has yielded, in order
  writes,    \* [r] every stream.write to the client, in order
  chunks     \* [r] the non-streaming handler's `chunks` array

vars == <<API_KEY, request, upstream, host, client, pc, response, calls,
          session, signed, reader, cs, yielded, writes, chunks>>

(***************************************************************************)
(* Requests and responses.                                                 *)
(***************************************************************************)
NoHeader    == [present |-> FALSE, value |-> ""]
Header(v)   == [present |-> TRUE, value |-> v]

NoResponse  == [status |-> 0, kind |-> "none"]
\* c.json({ error: ... }, status)
JsonError(status, msg) == [status |-> status, kind |-> "json", error |-> msg]
\* c.text(text)
TextResponse(status, text) == [status |-> status, kind |-> "text", text |-> text]
\* streamText(c, cb): a 200 whose body is what cb writes (writes[r])
StreamResponse == [status |-> 200, kind |-> "stream"]
\* c.json(response) of the non-streaming branch
JsonCompletion(body) == [status |-> 200, kind |-> "json", completion |-> body]

\* The route a request is dispatched to.
IsHealth(q)      == q.method = "GET" /\ q.path = "/"
IsChat(q)        == q.method = "POST" /\ q.path = "/chat"
IsCompletions(q) == q.method = "POST" /\ q.path = "/v1/chat/completions"

\* Which consumer drives chatStream for request q.
Mode(q) ==
  IF IsChat(q) THEN "chat"
  ELSE IF IsCompletions(q) /\ q.body.stream THEN "oai_stream"
  ELSE IF IsCompletions(q) THEN "oai_json"
  ELSE "none"

\* The prompt a handler passes to chatStream.
Prompt(q) ==
  IF IsChat(q) THEN q.body.prompt
  ELSE q.body.messages[Len(q.body.messages)].content

(***************************************************************************)
(* validateApiKey, lines 90-124.  The result is Next_ when the middleware  *)
(* calls next(), and the 401 response it returns otherwise.                *)
(***************************************************************************)
Next_ == [status |-> 0, kind |-> "next"]

\* A middleware that authenticates the root path like any other.
NoPublicPath(q) == FALSE

\* Lines 92-94: the root path skips authentication.
IsPublic(q) == q.path = "/"

\* The key read without trimming what follows the prefix.
KeyUntrimmed(value) == Slice(value, 7)

\* Line 107: authHeader.substring(7).trim()
KeyOf(value) == Trim(Slice(value, 7))

validateApiKey(q, key) ==
  IF IsPublic(q) THEN Next_
  ELSE IF ~q.auth.present \/ q.auth.value = ""
  THEN JsonError(401, "Missing Authorization header")
  ELSE IF ~StartsWith(q.auth.value, "Bearer ")
  THEN JsonError(401, "Invalid Authorization header format. Expected: Bearer sk-...")
  ELSE LET apiKey == KeyOf(q.auth.value)
       IN IF key # "" /\ apiKey # key
          THEN JsonError(401, "Invalid API key")
          ELSE IF ~StartsWith(apiKey, "sk-")
          THEN JsonError(401, "Invalid API key format. Expected: sk-...")
          ELSE Next_

(***************************************************************************)
(* The signer, lines 138-154 and 203-246.                                  *)
(***************************************************************************)
\* A signature that depends on the key alone.
HmacOfNoData(key, data) == [hmac |-> "SHA-256", key |-> key, data |-> ""]

\* HMAC-SHA256 of data under key, hex-encoded: an abstract injective
\* function of the pair.
generateHmacSignature(key, data) ==
  [hmac |-> "SHA-256", key |-> key, data |-> data]

\* A signing window of one minute.
MinuteMillis == 60 * 1000

\* The width of a signing window in milliseconds.
BucketMillis == 300000

\* generateZaSignature with the two values it draws made parameters:
\* now is getMillisTimestamp() and request_id is generateRequestId().  The
\* query string is kept as its list of <<name, value>> pairs, in order.
generateZaSignature(prompt, token, user_id, salt_key, now, request_id) ==
  LET timestamp     == NumToString(now)
      bucket        == parseInt(timestamp) \div BucketMillis
      w_key         == generateHmacSignature(salt_key, NumToString(bucket))
      payloadDict   == << <<"timestamp", timestamp>>,
                          <<"requestId", request_id>>,
                          <<"user_id", user_id>> >>
      sortedPayload == JoinEntries(SortEntries(payloadDict))
      promptB64     == base64Encode(Trim(prompt))
      dataToSign    == sortedPayload \o "|" \o promptB64 \o "|" \o timestamp
      signature     == generateHmacSignature(w_key, dataToSign)
      browserInfo   == << <<"version", "0.0.1">>,
                          <<"platform", "web">>,
                          <<"token", token>>,
                          <<"user_agent", "Mozilla/5.0 (Windows NT 10.0; Win64; x64) Chrome/120.0.0.0">>,
                          <<"language", "en-US">>,
                          <<"screen_resolution", "1920x1080">>,
                          <<"viewport_size", "1920x1080">>,
                          <<"timezone", "Europe/Paris">>,
                          <<"timezone_offset", "-60">> >>
      urlParams     == payloadDict \o browserInfo
                       \o << <<"signature_timestamp", timestamp>> >>
  IN [signature |-> signature, timestamp |-> timestamp,
      urlParams |-> urlParams]

NotSigned == [signature |-> "", timestamp |-> "", urlParams |-> <<>>]

(***************************************************************************)
(* The session, lines 46-59 and 261-274.                                   *)
(***************************************************************************)
NoSession == [chat_id |-> ""]

DefaultSaltKey   == "key-@@@@)))()((9))-xxxx&&&%%%%%"
DefaultFeVersion == "prod-fe-1.0.185"

\* The session object initializeZChat creates before its auth calls.
NewSession(chat_id, fe_version) ==
  [token |-> "", user_id |-> "", chat_id |-> chat_id, messages |-> <<>>,
   model |-> "glm-4.7", use_web_search |-> FALSE, use_thinking |-> FALSE,
   use_image_gen |-> FALSE, use_preview_mode |-> FALSE,
   user_name |-> "Guest", salt_key |-> DefaultSaltKey,
   fe_version |-> fe_version]

\* An upstream answer to one fetch: fail when fetch itself rejects (no
\* network), else the status and the body text.
Answer(status, text) ==
  [fail |-> FALSE, status |-> status, text |-> text, hasBody |-> TRUE]
\* An answer whose response.body is null.
NoBody(status) ==
  [fail |-> FALSE, status |-> status, text |-> "", hasBody |-> FALSE]
NetworkError ==
  [fail |-> TRUE, status |-> 0, text |-> "", hasBody |-> FALSE]
\* response.ok
Ok(a) == ~a.fail /\ a.status >= 200 /\ a.status <= 299

\* A scrape without the default version to fall back on.
VersionOrNothing(a) == MatchVersion(a.text)

\* scrapeConfig's fe_version for the landing-page answer a, lines 184-199.
ScrapedVersion(a) ==
  IF Ok(a) /\ MatchVersion(a.text) # "" THEN MatchVersion(a.text)
  ELSE DefaultFeVersion

\* `data.token || ""` for the parsed body data of an auth answer.
TokenIn(data) ==
  LET token == GetProp(data, "token")
  IN IF token.t = "throw" THEN Thrown
     ELSE IF Truthy(token) THEN JStr(ToText(token))
     ELSE JStr("")

\* `(await response.json()).token || ""` for an auth answer: the token, or
\* Thrown when the body is no JSON or the value has no properties.
TokenOf(a) == TokenIn(JSON_parse(a.text))

\* The session with the id and e-mail name of the token's payload, lines
\* 319-323; a payload whose fields cannot be read leaves the session alone.
WithPayload(sess, payload) ==
  LET id     == GetProp(payload, "id")
      email  == GetProp(payload, "email")
      withId == [sess EXCEPT !.user_id = IF Truthy(id) THEN ToText(id) ELSE ""]
  IN IF id.t = "throw" THEN sess
     ELSE IF ~Truthy(email) THEN [withId EXCEPT !.user_name = "Guest"]
     ELSE IF email.t # "string" THEN withId
     ELSE [withId EXCEPT !.user_name = Split(email.v, "@")[1]]

\* JSON.parse(base64Decode(...)) of a decode result, line 318.
PayloadOf(decoded) ==
  IF decoded.ok THEN JSON_parse(decoded.text) ELSE Thrown

\* Lines 315-318 for the token's segments tokenParts.
WithSegments(sess, tokenParts) ==
  IF Len(tokenParts) # 3 THEN sess
  ELSE WithPayload(sess, PayloadOf(base64Decode(tokenParts[2] \o "==")))

\* The identity fields the token gives, lines 313-325: the session with
\* user_id and user_name set as far as the decode gets before it raises.
DecodeToken(sess) ==
  IF sess.token = "" THEN sess
  ELSE WithSegments(sess, Split(sess.token, "."))


(***************************************************************************)
(* chatStream's line handling, lines 424-450, and the egress frames.       *)
(***************************************************************************)
SkipLine       == [kind |-> "skip", chunk |-> ""]
EndOfStream    == [kind |-> "done", chunk |-> ""]
YieldChunk(c)  == [kind |-> "yield", chunk |-> c]

\* A loop body without the try block: a payload that cannot be parsed
\* ends the stream.
DeltaOrEnd(dataJson) ==
  IF dataJson.t = "throw" \/ dataJson.t = "null" THEN EndOfStream
  ELSE IF Truthy(GetProp(dataJson, "data"))
  THEN YieldChunk(ToText(GetProp(GetProp(dataJson, "data"), "delta_content")))
  ELSE SkipLine

\* A loop body that looks at the first choice before the data field.
ChoiceFirst(dataJson) ==
  LET data    == GetProp(dataJson, "data")
      delta   == GetProp(data, "delta_content")
      choices == GetProp(dataJson, "choices")
      content == GetPropOpt(GetPropOpt(GetFirst(choices), "delta"), "content")
  IN IF dataJson.t = "throw" \/ data.t = "throw" THEN SkipLine
     ELSE IF Truthy(choices) /\ Truthy(content)
     THEN YieldChunk(ToText(content))
     ELSE IF Truthy(data) /\ Truthy(delta) THEN YieldChunk(ToText(delta))
     ELSE SkipLine

\* The try block of the loop body for the parsed payload dataJson: the
\* delta_content of its data if there is one, else the content of its
\* first choice's delta, else nothing; a TypeError is caught as a skip.
DeltaOf(dataJson) ==
  LET data    == GetProp(dataJson, "data")
      delta   == GetProp(data, "delta_content")
      choices == GetProp(dataJson, "choices")
      content == GetPropOpt(GetPropOpt(GetFirst(choices), "delta"), "content")
  IN IF dataJson.t = "throw" \/ data.t = "throw" THEN SkipLine
     ELSE IF Truthy(data) /\ Truthy(delta) THEN YieldChunk(ToText(delta))
     ELSE IF Truthy(choices) /\ Truthy(content)
     THEN YieldChunk(ToText(content))
     ELSE SkipLine

\* What one iteration of `for (const line of lines)` does with line: skip
\* it, return from the generator, or yield a delta (as text).
ProcessLine(line) ==
  IF ~StartsWith(line, "data: ") THEN SkipLine
  ELSE IF Slice(line, 6) = "[DONE]" THEN EndOfStream
  ELSE DeltaOf(JSON_parse(Slice(line, 6)))

\* A split whose last part is not popped: the text after the last "\n" is
\* handled as a line too.
AllParts(parts) == parts

\* `lines.pop() || ''` on the parts of `buffer.split('\n')`: the complete
\* lines, and the residue kept in the buffer.
CompleteLines(parts) == SubSeq(parts, 1, Len(parts) - 1)

\* A buffer that forgets the incomplete line at the end of a chunk.
NoResidue(parts) == ""

Residue(parts) == parts[Len(parts)]

\* A loop the sentinel does not leave.
AfterLineNoReturn(res, rest) ==
  IF res.kind = "yield" THEN "yield"
  ELSE IF rest = <<>> THEN "read" ELSE "lines"

\* Where the generator stands once a line is handled: at the `return` of
\* line 430, at the `yield` of line 437 or 442, or at the next line (the
\* next read when the chunk has no further line).
AfterLine(res, rest) ==
  IF res.kind = "done" THEN "finally"
  ELSE IF res.kind = "yield" THEN "yield"
  ELSE IF rest = <<>> THEN "read" ELSE "lines"

\* A finally block that never records the reply.
NoAssistantEntry(messages, fullAssistantContent) == messages

\* Lines 455-457: the reply is pushed on the transcript if it is not empty.
PushAssistant(messages, fullAssistantContent) ==
  IF fullAssistantContent # ""
  THEN Append(messages, [role |-> "assistant",
                         content |-> fullAssistantContent])
  ELSE messages

\* JSON.stringify of a string: quoted, with its escapes.
RECURSIVE JsonEscape(_)
JsonEscape(str) ==
  IF str = "" THEN ""
  ELSE LET c == CharAt(str, 1)
           e == CASE c = "\"" -> "\\\""
                  [] c = "\\" -> "\\\\"
                  [] c = "\n" -> "\\n"
                  [] c = "\t" -> "\\t"
                  [] c = "\r" -> "\\r"
                  [] OTHER    -> c
       IN e \o JsonEscape(Tail(str))

JsonQuote(str) == "\"" \o JsonEscape(str) \o "\""

\* The SSE frame of one delta, lines 516-522.
DeltaFrame(chunk) ==
  "data: {\"choices\":[{\"index\":0,\"delta\":{\"role\":\"assistant\",\"content\":"
  \o JsonQuote(chunk) \o "},\"finish_reason\":null}]}\n\n"

\* A closing frame that does not say the reply is finished.
UnfinishedFrame ==
  "data: {\"choices\":[{\"index\":0,\"delta\":{},\"finish_reason\":null}]}\n\n"

\* The finish frame, lines 527-533, and the done signal, line 537.
FinishFrame ==
  "data: {\"choices\":[{\"index\":0,\"delta\":{},\"finish_reason\":\"stop\"}]}\n\n"

DoneFrame == "data: [DONE]\n\n"

\* A quarter rounded down.
FloorQuarter(n) == n \div 4

\* Math.ceil(n / 4)
CeilQuarter(n) == (n + 3) \div 4

\* messages.reduce((sum, msg) => sum + Math.ceil(msg.content.length / 4), 0)
RECURSIVE PromptTokens(_)
PromptTokens(messages) ==
  IF messages = <<>> THEN 0
  ELSE CeilQuarter(Len(Head(messages).content)) + PromptTokens(Tail(messages))

\* The ChatCompletionResponse of the non-streaming branch, lines 546-570
\* (without its random id and its creation time).
CompletionBody(model, messages, chunkList) ==
  LET fullContent      == Join(chunkList)
      promptTokens     == PromptTokens(messages)
      completionTokens == CeilQuarter(Len(fullContent))
  IN [object  |-> "chat.completion",
      model   |-> model,
      choices |-> << [index |-> 0,
                      message |-> [role |-> "assistant",
                                   content |-> fullContent],
                      finish_reason |-> "stop"] >>,
      usage   |-> [prompt_tokens |-> promptTokens,
                   completion_tokens |-> completionTokens,
                   total_tokens |-> promptTokens + completionTokens]]

\* A text compared as it is written.
AsWritten(str) == str

\* s.toLowerCase() on ASCII
RECURSIVE ToLowerCase(_)
ToLowerCase(str) ==
  IF str = "" THEN ""
  ELSE LET c == CharAt(str, 1)
           n == Ord(c)
       IN (IF n >= 65 /\ n <= 90 THEN Chr(n + 32) ELSE c)
          \o ToLowerCase(Tail(str))

\* s.includes(sub)
Includes(str, sub) ==
  \E i \in 1..(Len(str) - Len(sub) + 1) : Sub(str, i, i + Len(sub) - 1) = sub

\* messages.some(msg => msg.content.toLowerCase().includes(word))
SomeIncludes(messages, word) ==
  \E i \in 1..Len(messages) : Includes(ToLowerCase(messages[i].content), word)


(***************************************************************************)
(* The actions: one per step of a request's task between two awaits.       *)
(***************************************************************************)
\* State kept in one place for all requests: what one request's step
\* writes, every request sees.
SetForAll(f, r, v) == [x \in DOMAIN f |-> v]

\* The state of request r becomes v; every other request's stays.
Set(f, r, v) == [f EXCEPT ![r] = v]

Streams_(m) == m \in {"chat", "oai_stream"}

\* What the rejection of chatStream (or of a write) does to request r whose
\* error message is msg.  In the two streaming routes chatStream runs in
\* the callback of streamText, after `return streamText(...)` has left the
\* handler's try block: the rejection never reaches the handler's catch and
\* the 200 response stands.  In the non-streaming branch the `for await`
\* is inside the try block and the catch of lines 574-577 answers 500.
Rejected(r, msg) ==
  IF Mode(request[r]) = "oai_json"
  THEN response' = Set(response, r, JsonError(500, "API error: " \o msg))
  ELSE UNCHANGED response

\* A middleware that goes on to the route handler after it has answered.
NextAfterAnswer(res) == "route"

\* Where the request goes after validateApiKey gave res: to its route
\* handler when next() was called; a returned 401 ends it, lines 98-123.
AfterMiddleware(res) == IF res = Next_ THEN "route" ELSE "done"

\* The middleware: app.use('/*', validateApiKey), lines 90-127.
Middleware(r) ==
  /\ pc[r] = "recv"
  /\ LET res == validateApiKey(request[r], API_KEY)
     IN /\ pc' = Set(pc, r, AfterMiddleware(res))
        /\ IF res = Next_
           THEN UNCHANGED response
           ELSE response' = Set(response, r, res)
  /\ UNCHANGED <<API_KEY, request, upstream, host, client, calls, session,
                 signed, reader, cs, yielded, writes, chunks>>

\* app.get('/'), lines 581-583.
HealthCheck(r) ==
  /\ pc[r] = "route"
  /\ IsHealth(request[r])
  /\ response' = Set(response, r,
        TextResponse(200, "Cloudflare Worker for Z.AI Chat API is running!"))
  /\ pc' = Set(pc, r, "done")
  /\ UNCHANGED <<API_KEY, request, upstream, host, client, calls, session,
                 signed, reader, cs, yielded, writes, chunks>>

\* No route matches: Hono's 404.
NotFound(r) ==
  /\ pc[r] = "route"
  /\ ~IsHealth(request[r]) /\ ~IsChat(request[r]) /\ ~IsCompletions(request[r])
  /\ response' = Set(response, r, TextResponse(404, "404 Not Found"))
  /\ pc' = Set(pc, r, "done")
  /\ UNCHANGED <<API_KEY, request, upstream, host, client, calls, session,
                 signed, reader, cs, yielded, writes, chunks>>

\* app.post('/chat'), lines 462-468: a body that is no JSON makes
\* c.req.json() reject, which the catch of lines 480-483 answers.
PostChat(r) ==
  /\ pc[r] = "route"
  /\ IsChat(request[r])
  /\ IF request[r].body.ok
     THEN /\ pc' = Set(pc, r, "scrape")
          /\ UNCHANGED response
     ELSE /\ pc' = Set(pc, r, "done")
          /\ response' = Set(response, r,
                JsonError(500, "Chat error: Unexpected end of JSON input"))
  /\ UNCHANGED <<API_KEY, request, upstream, host, client, calls, session,
                 signed, reader, cs, yielded, writes, chunks>>

\* app.post('/v1/chat/completions'), lines 487-503: as PostChat, and an
\* empty `messages` makes `lastMessage.content` raise a TypeError.
PostCompletions(r) ==
  /\ pc[r] = "route"
  /\ IsCompletions(request[r])
  /\ IF request[r].body.ok /\ request[r].body.messages # <<>>
     THEN /\ pc' = Set(pc, r, "scrape")
          /\ UNCHANGED response
     ELSE /\ pc' = Set(pc, r, "done")
          /\ response' = Set(response, r,
                JsonError(500, IF request[r].body.ok
                               THEN "API error: Cannot read properties of undefined"
                               ELSE "API error: Unexpected end of JSON input"))
  /\ UNCHANGED <<API_KEY, request, upstream, host, client, calls, session,
                 signed, reader, cs, yielded, writes, chunks>>

\* initializeZChat up to its first auth call, lines 250-274: scrapeConfig
\* fetches the landing page, then the session object is created.
ScrapeConfig(r) ==
  /\ pc[r] = "scrape"
  /\ calls' = Set(calls, r, Append(calls[r], "GET /"))
  /\ session' = Set(session, r,
        NewSession(host[r].chat_id, ScrapedVersion(upstream[r].landing)))
  /\ pc' = Set(pc, r, "auths")
  /\ UNCHANGED <<API_KEY, request, upstream, host, client, response, signed,
                 reader, cs, yielded, writes, chunks>>

\* A who-am-I call that is repeated until it answers.
LookupRetried(a, tok) ==
  IF a.fail \/ ~Ok(a) THEN "auths" ELSE "init_done"

\* Where initializeZChat goes after the who-am-I call answered a, with tok
\* the token read from a 2xx body, lines 276-299 and 329-331: to the guest
\* registration when the answer is not 2xx or holds no token; a rejected
\* fetch and a 2xx body that is not JSON leave through the outer catch.
AfterLookup(a, tok) ==
  IF a.fail THEN "init_done"
  ELSE IF ~Ok(a) THEN "guest"
  ELSE IF tok.t = "throw" THEN "init_done"
  ELSE IF tok.v = "" THEN "guest"
  ELSE "init_done"

\* The who-am-I call and what follows it without a further fetch, lines
\* 276-283, 295-299 and 313-333.
AuthsLookup(r) ==
  /\ pc[r] = "auths"
  /\ calls' = Set(calls, r, Append(calls[r], "GET /api/v1/auths/"))
  /\ LET a   == upstream[r].auths
         tok == TokenOf(a)
     IN /\ pc' = Set(pc, r, AfterLookup(a, tok))
        /\ IF a.fail \/ ~Ok(a) \/ tok.t = "throw" \/ tok.v = ""
           THEN UNCHANGED session
           ELSE session' = Set(session, r,
                   DecodeToken([session[r] EXCEPT !.token = tok.v]))
  /\ UNCHANGED <<API_KEY, request, upstream, host, client, response, signed,
                 reader, cs, yielded, writes, chunks>>

\* A who-am-I call made once more after the guest registration.
LookupAfterGuest == "auths"

\* Where initializeZChat goes after the guest registration, lines 294 and
\* 309-333: to its end, whatever the registration answered.
AfterGuest == "init_done"

\* The guest registration call and the rest of initializeZChat, lines
\* 285-294 (or 300-309) and 313-333.
GuestAuth(r) ==
  /\ pc[r] = "guest"
  /\ calls' = Set(calls, r, Append(calls[r], "POST /api/v1/auths/guest"))
  /\ LET g   == upstream[r].guest
         tok == TokenOf(g)
     IN IF g.fail \/ (Ok(g) /\ tok.t = "throw") \/ ~Ok(g)
        THEN UNCHANGED session
        ELSE session' = Set(session, r,
                DecodeToken([session[r] EXCEPT !.token = tok.v]))
  /\ pc' = Set(pc, r, AfterGuest)
  /\ UNCHANGED <<API_KEY, request, upstream, host, client, response, signed,
                 reader, cs, yielded, writes, chunks>>

\* The handler once initializeZChat has returned: lines 469-475 of /chat,
\* lines 504-513 of /v1/chat/completions.  streamText returns the 200
\* streaming Response; its callback then runs chatStream.
SessionReady(r) ==
  /\ pc[r] = "init_done"
  /\ LET q == request[r]
         b == q.body
     IN session' = Set(session, r,
          IF IsChat(q)
          THEN [session[r] EXCEPT !.model = b.model,
                                  !.use_web_search = b.web_search,
                                  !.use_thinking = b.thinking,
                                  !.use_image_gen = b.image_gen,
                                  !.use_preview_mode = b.preview_mode]
          ELSE [session[r] EXCEPT !.model = b.model,
                                  !.use_web_search =
                                     SomeIncludes(b.messages, "search"),
                                  !.use_thinking =
                                     SomeIncludes(b.messages, "think")])
  /\ response' = Set(response, r,
        IF Streams_(Mode(request[r])) THEN StreamResponse ELSE response[r])
  /\ pc' = Set(pc, r, "cs_start")
  /\ UNCHANGED <<API_KEY, request, upstream, host, client, calls, signed,
                 reader, cs, yielded, writes, chunks>>

\* chatStream, line 353: the user entry is pushed on the transcript.
ChatStreamStart(r) ==
  /\ pc[r] = "cs_start"
  /\ session' = Set(session, r,
        [session[r] EXCEPT !.messages =
           Append(@, [role |-> "user", content |-> Prompt(request[r])])])
  /\ pc' = Set(pc, r, "sign")
  /\ UNCHANGED <<API_KEY, request, upstream, host, client, response, calls,
                 signed, reader, cs, yielded, writes, chunks>>

\* chatStream, lines 355-360: the request is signed.
GenerateZaSignature(r) ==
  /\ pc[r] = "sign"
  /\ signed' = Set(signed, r,
        generateZaSignature(Prompt(request[r]), session[r].token,
                            session[r].user_id, session[r].salt_key,
                            host[r].now, host[r].request_id))
  /\ pc' = Set(pc, r, "fetch")
  /\ UNCHANGED <<API_KEY, request, upstream, host, client, response, calls,
                 session, reader, cs, yielded, writes, chunks>>

\* chatStream, lines 396-413: the chat call.  A network error, a status
\* that is not 2xx and a null body each raise before the try block.
ChatFetch(r) ==
  /\ pc[r] = "fetch"
  /\ calls' = Set(calls, r, Append(calls[r], "POST /api/v2/chat/completions"))
  /\ LET c == upstream[r].chat
     IN IF Ok(c) /\ c.hasBody
        THEN /\ reader' = Set(reader, r,
                   [state |-> "locked", pos |-> 0, releases |-> 0,
                    midline |-> FALSE])
             /\ pc' = Set(pc, r, "read")
             /\ UNCHANGED response
        ELSE /\ Rejected(r, IF c.fail THEN "fetch failed"
                            ELSE IF ~Ok(c)
                            THEN "Error " \o NumToString(c.status) \o ": "
                                 \o c.text
                            ELSE "Response body is null")
             /\ pc' = Set(pc, r, "done")
             /\ UNCHANGED reader
  /\ UNCHANGED <<API_KEY, request, upstream, host, client, session, signed,
                 cs, yielded, writes, chunks>>

\* Where the generator goes on: to the next line, or to the next read.
Resume(lines) == IF lines = <<>> THEN "read" ELSE "lines"

\* One reader.read(), lines 417-422: at the end of the body `done` breaks
\* the loop; otherwise the upstream delivers the next k characters, which
\* are appended to the buffer and split into lines.
ReaderRead(r) ==
  /\ pc[r] = "read"
  /\ LET text == upstream[r].chat.text
         pos  == reader[r].pos
     IN IF pos = Len(text)
        THEN /\ cs' = Set(cs, r, [cs[r] EXCEPT !.exit = "close"])
             /\ pc' = Set(pc, r, "finally")
             /\ UNCHANGED reader
        ELSE \E k \in 1..(Len(text) - pos) :
               LET buffer == cs[r].buffer \o SubSeq(text, pos + 1, pos + k)
                   lines  == Split(buffer, "\n")
               IN /\ reader' = Set(reader, r, [reader[r] EXCEPT
                        !.pos = pos + k,
                        !.midline = @ \/ StartsWith(Residue(lines), "data: {")])
                  /\ cs' = Set(cs, r, [cs[r] EXCEPT
                                         !.buffer = Residue(lines),
                                         !.lines = CompleteLines(lines)])
                  /\ pc' = Set(pc, r, Resume(CompleteLines(lines)))
  /\ UNCHANGED <<API_KEY, request, upstream, host, client, response, calls,
                 session, signed, yielded, writes, chunks>>

\* reader.read() rejects (the upstream connection breaks): the error leaves
\* the loop through the finally block.
ReadError(r) ==
  /\ pc[r] = "read"
  /\ cs' = Set(cs, r, [cs[r] EXCEPT !.exit = "error"])
  /\ pc' = Set(pc, r, "finally")
  /\ UNCHANGED <<API_KEY, request, upstream, host, client, response, calls,
                 session, signed, reader, yielded, writes, chunks>>

\* One iteration of `for (const line of lines)`, lines 424-450.
HandleLine(r) ==
  /\ pc[r] = "lines"
  /\ LET res  == ProcessLine(Head(cs[r].lines))
         rest == Tail(cs[r].lines)
     IN /\ pc' = Set(pc, r, AfterLine(res, rest))
        /\ IF res.kind = "skip"
           THEN /\ cs' = Set(cs, r, [cs[r] EXCEPT !.lines = rest])
                /\ UNCHANGED yielded
           ELSE IF res.kind = "done"
           THEN /\ cs' = Set(cs, r, [cs[r] EXCEPT !.lines = rest,
                                                  !.exit = "done"])
                /\ UNCHANGED yielded
           ELSE /\ cs' = Set(cs, r, [cs[r] EXCEPT
                           !.lines = rest,
                           !.chunk = res.chunk,
                           !.fullAssistantContent = @ \o res.chunk])
                /\ yielded' = Set(yielded, r, Append(yielded[r], res.chunk))
  /\ UNCHANGED <<API_KEY, request, upstream, host, client, response, calls,
                 session, signed, reader, writes, chunks>>

\* /chat, lines 476-478: the delta is written as it is.
WriteChunk(r) ==
  /\ pc[r] = "yield"
  /\ Mode(request[r]) = "chat"
  /\ writes' = Set(writes, r, Append(writes[r], cs[r].chunk))
  /\ pc' = Set(pc, r, Resume(cs[r].lines))
  /\ UNCHANGED <<API_KEY, request, upstream, host, client, response, calls,
                 session, signed, reader, cs, yielded, chunks>>

\* /v1/chat/completions with stream, lines 515-524: the delta's frame.
WriteDeltaFrame(r) ==
  /\ pc[r] = "yield"
  /\ Mode(request[r]) = "oai_stream"
  /\ writes' = Set(writes, r, Append(writes[r], DeltaFrame(cs[r].chunk)))
  /\ pc' = Set(pc, r, Resume(cs[r].lines))
  /\ UNCHANGED <<API_KEY, request, upstream, host, client, response, calls,
                 session, signed, reader, cs, yielded, chunks>>

\* /v1/chat/completions without stream, lines 542-544.
PushChunk(r) ==
  /\ pc[r] = "yield"
  /\ Mode(request[r]) = "oai_json"
  /\ chunks' = Set(chunks, r, Append(chunks[r], cs[r].chunk))
  /\ pc' = Set(pc, r, Resume(cs[r].lines))
  /\ UNCHANGED <<API_KEY, request, upstream, host, client, response, calls,
                 session, signed, reader, cs, yielded, writes>>

\* A stream.write rejects because the client is gone.  In the loop body the
\* `for await` then calls the generator's return(), which runs the finally
\* block; after the loop the callback just ends.
WriteFails(r) ==
  /\ pc[r] \in {"yield", "finish", "senddone"}
  /\ Streams_(Mode(request[r]))
  /\ client' = Set(client, r, "gone")
  /\ IF pc[r] = "yield"
     THEN /\ cs' = Set(cs, r, [cs[r] EXCEPT !.exit = "abort"])
          /\ pc' = Set(pc, r, "finally")
     ELSE /\ pc' = Set(pc, r, "done")
          /\ UNCHANGED cs
  /\ UNCHANGED <<API_KEY, request, upstream, host, response, calls, session,
                 signed, reader, yielded, writes, chunks>>

\* A finally block that leaves the lock held.
LockKept(rd) == rd

\* reader.releaseLock(), line 453.
releaseLock(rd) ==
  [rd EXCEPT !.state = "released", !.releases = @ + 1]

\* The finally block, lines 452-458, and where control goes after it: on
\* to the consumer's code after the loop, or out with the error.
Finally(r) ==
  /\ pc[r] = "finally"
  /\ reader' = Set(reader, r, releaseLock(reader[r]))
  /\ session' = Set(session, r,
        [session[r] EXCEPT !.messages =
           PushAssistant(@, cs[r].fullAssistantContent)])
  /\ IF cs[r].exit = "error"
     THEN /\ Rejected(r, "read failed")
          /\ pc' = Set(pc, r, "done")
     ELSE /\ UNCHANGED response
          /\ pc' = Set(pc, r,
                IF cs[r].exit = "abort" THEN "done"
                ELSE IF Mode(request[r]) = "chat" THEN "done"
                ELSE IF Mode(request[r]) = "oai_stream" THEN "finish"
                ELSE "respond")
  /\ UNCHANGED <<API_KEY, request, upstream, host, client, calls, signed, cs,
                 yielded, writes, chunks>>

\* Lines 526-534: the finish frame.
WriteFinish(r) ==
  /\ pc[r] = "finish"
  /\ writes' = Set(writes, r, Append(writes[r], FinishFrame))
  /\ pc' = Set(pc, r, "senddone")
  /\ UNCHANGED <<API_KEY, request, upstream, host, client, response, calls,
                 session, signed, reader, cs, yielded, chunks>>

\* Line 537: the done signal, the callback's last write.
WriteDone(r) ==
  /\ pc[r] = "senddone"
  /\ writes' = Set(writes, r, Append(writes[r], DoneFrame))
  /\ pc' = Set(pc, r, "done")
  /\ UNCHANGED <<API_KEY, request, upstream, host, client, response, calls,
                 session, signed, reader, cs, yielded, chunks>>

\* Lines 546-572: the single JSON response of the non-streaming branch.
RespondJson(r) ==
  /\ pc[r] = "respond"
  /\ response' = Set(response, r,
        JsonCompletion(CompletionBody(session[r].model,
                                      request[r].body.messages, chunks[r])))
  /\ pc' = Set(pc, r, "done")
  /\ UNCHANGED <<API_KEY, request, upstream, host, client, calls, session,
                 signed, reader, cs, yielded, writes, chunks>>

Next ==
  \E r \in Requests :
    \/ Middleware(r)
    \/ HealthCheck(r)
    \/ NotFound(r)
    \/ PostChat(r)
    \/ PostCompletions(r)
    \/ ScrapeConfig(r)
    \/ AuthsLookup(r)
    \/ GuestAuth(r)
    \/ SessionReady(r)
    \/ ChatStreamStart(r)
    \/ GenerateZaSignature(r)
    \/ ChatFetch(r)
    \/ ReaderRead(r)
    \/ ReadError(r)
    \/ HandleLine(r)
    \/ WriteChunk(r)
    \/ WriteDeltaFrame(r)
    \/ PushChunk(r)
    \/ WriteFails(r)
    \/ Finally(r)
    \/ WriteFinish(r)
    \/ WriteDone(r)
    \/ RespondJson(r)


(***************************************************************************)
(* The inputs: requests, upstream answers, and the initial states.         *)
(***************************************************************************)
EmptyBody ==
  [ok |-> TRUE, prompt |-> "", model |-> "glm-4.7", web_search |-> FALSE,
   thinking |-> FALSE, image_gen |-> FALSE, preview_mode |-> FALSE,
   messages |-> <<>>, stream |-> FALSE]

\* A body c.req.json() cannot parse.
BadBody == [EmptyBody EXCEPT !.ok = FALSE]

Req(method, path, auth, body) ==
  [method |-> method, path |-> path, auth |-> auth, body |-> body]

NoRequest == Req("", "", NoHeader, EmptyBody)

ChatReq(auth, prompt) ==
  Req("POST", "/chat", auth, [EmptyBody EXCEPT !.prompt = prompt])

CompletionsReq(auth, messages, stream) ==
  Req("POST", "/v1/chat/completions", auth,
      [EmptyBody EXCEPT !.messages = messages, !.stream = stream])

UserMsg(content) == [role |-> "user", content |-> content]

\* The lines an upstream body is made of.
LineDelta   == "data: {\"data\":{\"delta_content\":\"Hi\"}}"
LineChoice  == "data: {\"choices\":[{\"delta\":{\"content\":\" there\"}}]}"
LineDone    == "data: [DONE]"
LineCutJson == "data: {\"data\":{\"delta_con"
LineNull    == "data: null"
LineBlank   == ""

\* Lines with both fields, with one or both of them empty, and with none.
LineBoth ==
  "data: {\"data\":{\"delta_content\":\"A\"},\"choices\":[{\"delta\":{\"content\":\"B\"}}]}"
LineEmptyDelta ==
  "data: {\"data\":{\"delta_content\":\"\"},\"choices\":[{\"delta\":{\"content\":\"B\"}}]}"
LineEmptyBoth ==
  "data: {\"data\":{\"delta_content\":\"\"},\"choices\":[{\"delta\":{\"content\":\"\"}}]}"
LineNoChoice == "data: {\"choices\":[]}"
LineNoFields == "data: {}"

\* The lines of which every combination is tried.
UpstreamLines == {LineDelta, LineChoice, LineDone, LineCutJson}

\* The longest upstream body, in lines, of which every combination is tried.
MaxLines == 2

\* All sequences of at most n upstream lines.
RECURSIVE LineSeqs(_)
LineSeqs(n) ==
  IF n = 0 THEN {<<>>}
  ELSE LET shorter == LineSeqs(n - 1)
       IN shorter \cup {Append(ls, l) : ls \in {x \in shorter : Len(x) = n - 1},
                                         l \in UpstreamLines}

\* The body whose lines are ls, each ended by "\n".
RECURSIVE Body(_)
Body(ls) == IF ls = <<>> THEN "" ELSE Head(ls) \o "\n" \o Body(Tail(ls))

\* The body whose last line is not ended by "\n".
Unterminated(ls) == LET b == Body(ls) IN SubSeq(b, 1, Len(b) - 1)

\* Bodies of three lines where a line that yields nothing, or the sentinel,
\* stands between two deltas.
LongBodies ==
  {Body(<<LineDelta, l, LineChoice>>) :
     l \in {LineCutJson, LineNull, LineBlank, LineDone}}

\* Bodies the stream ends in the middle of.
CutBodies ==
  {Unterminated(<<LineDelta>>), Unterminated(<<LineDelta, LineChoice>>),
   Unterminated(<<LineDelta, LineDone>>)}

\* Bodies of lines that hold both fields or empty ones.
FieldBodies ==
  {Body(<<LineBoth, LineEmptyDelta>>), Body(<<LineEmptyBoth, LineDelta>>),
   Body(<<LineNoChoice, LineNoFields, LineChoice>>)}

\* The upstream bodies.
Bodies ==
  {Body(ls) : ls \in LineSeqs(MaxLines)} \cup LongBodies \cup CutBodies

\* A token whose middle segment decodes to {"id":"u"}.
GuestToken == "h.eyJpZCI6InUifQ.s"

\* An upstream that refuses the who-am-I call, registers a guest and
\* answers the chat call with chat.
UpstreamWith(chat) ==
  [landing |-> Answer(200, "<script src=\"/prod-fe-1.0.200/app.js\">"),
   auths   |-> Answer(401, ""),
   guest   |-> Answer(200, "{\"token\":\"" \o GuestToken \o "\"}"),
   chat    |-> chat]

NoUpstream ==
  [landing |-> NetworkError, auths |-> NetworkError, guest |-> NetworkError,
   chat |-> NetworkError]

DefaultHost == [now |-> 300001, request_id |-> "r1", chat_id |-> "c1"]

GoodAuth == Header("Bearer sk-a")

\* The three requests that reach chatStream.
ChatRequests ==
  {ChatReq(GoodAuth, "Hello"),
   CompletionsReq(GoodAuth, <<UserMsg("Hello")>>, TRUE),
   CompletionsReq(GoodAuth, <<UserMsg("Hello")>>, FALSE)}

\* Requests whose chat call succeeds, over every upstream body.
StreamCases ==
  {<<"", q, UpstreamWith(Answer(200, b))>> : q \in ChatRequests, b \in Bodies}

\* Requests whose chat call fails.
FailedChats == {NetworkError, Answer(503, "busy"), NoBody(204)}

FailCases ==
  {<<"", q, UpstreamWith(c)>> : q \in ChatRequests, c \in FailedChats}

\* A token whose middle segment decodes to {"id":"w","email":"a@bc"}.
MemberToken == "h.eyJpZCI6InciLCJlbWFpbCI6ImFAYmMifQ.s"
\* A token whose middle segment decodes to {"id":"w","email":777}.
NumberMailToken == "h.eyJpZCI6InciLCJlbWFpbCI6Nzc3fQ.s"
\* A token of two segments.
TwoPartToken == "h.eyJpZCI6InUifQ"
\* A token whose middle segment, {"id":"u1"} in base64, is no base64 text
\* once "==" is put after it.
UnpaddableToken == "h.eyJpZCI6InUxIn0.s"

\* The body of an auth answer that carries token t.
TokenBody(t) == "{\"token\":\"" \o t \o "\"}"

\* Answers of the landing page: with a version, without one, refused,
\* unreachable.
Landings ==
  {Answer(200, "<script src=\"/prod-fe-1.0.200/app.js\">"),
   Answer(200, "<html></html>"), Answer(500, ""), NetworkError}

\* Answers of the who-am-I call.
LookupAnswers ==
  {NetworkError, Answer(401, ""), Answer(200, "{}"), Answer(200, "<html>"),
   Answer(200, TokenBody(MemberToken)),
   Answer(200, TokenBody(NumberMailToken)),
   Answer(200, TokenBody(TwoPartToken)),
   Answer(200, TokenBody(UnpaddableToken))}

\* Answers of the guest registration.
GuestAnswers ==
  {NetworkError, Answer(500, ""), Answer(200, "{}"), Answer(200, "<html>"),
   Answer(200, TokenBody(GuestToken))}

\* One completions request over every combination of bootstrap answers,
\* with a chat call that answers and one that does not.
BootCases ==
  {<<"", CompletionsReq(GoodAuth, <<UserMsg("Hello")>>, FALSE),
     [landing |-> l, auths |-> a, guest |-> g, chat |-> c]>> :
     l \in Landings, a \in LookupAnswers, g \in GuestAnswers,
     c \in {Answer(200, Body(<<LineDone>>)), NetworkError}}

Msg(role, content) == [role |-> role, content |-> content]

\* Message lists of several entries, of lengths around the multiples of 4,
\* ending in entries of every role, with the words search and think in
\* upper and lower case, inside other words, and broken up.
MessageLists ==
  {<<Msg("system", "Be brief"), UserMsg("Hello")>>,
   <<UserMsg("Please SEARCH it"), Msg("assistant", "ok")>>,
   <<UserMsg("I Think so")>>,
   <<UserMsg("sear ch thin k")>>,
   <<UserMsg("research"), Msg("system", "rethinking")>>,
   <<UserMsg("")>>,
   <<UserMsg("abcd"), UserMsg("abcde"), UserMsg("a")>>}

\* Completions requests over the message lists, aggregated and streamed.
MessageCases ==
  {<<"", CompletionsReq(GoodAuth, ms, st),
     UpstreamWith(Answer(200, Body(<<LineDelta>>)))>> :
     ms \in MessageLists, st \in BOOLEAN}

\* The /chat request over the bodies of FieldBodies.
FieldCases ==
  {<<"", ChatReq(GoodAuth, "Hello"), UpstreamWith(Answer(200, b))>> :
     b \in FieldBodies}

AuthHeaders ==
  {NoHeader, Header(""), Header("Bearer"), Header("Bearer sk-a"),
   Header("Bearer  sk-a"), Header("Bearer \tsk-b"), Header("Bearer sk-b"),
   Header("Bearer abc"),
   Header("Bearer sk-"), Header("bearer sk-a"), Header("Basic sk-a"),
   Header("Bearersk-a"), Header("sk-a")}

ApiKeys == {"", "sk-a", "abc"}

\* Requests over every Authorization header, configured key and route.
AuthCases ==
  LET reqs(h) == {Req("GET", "/", h, EmptyBody),
                  Req("POST", "/", h, EmptyBody),
                  Req("GET", "/chat", h, EmptyBody),
                  ChatReq(h, "Hello"),
                  Req("POST", "/chat", h, BadBody),
                  CompletionsReq(h, <<UserMsg("Hello")>>, FALSE),
                  CompletionsReq(h, <<>>, FALSE)}
  IN {<<k, q, UpstreamWith(Answer(200, Body(<<LineDelta, LineDone>>)))>> :
        k \in ApiKeys, q \in UNION {reqs(h) : h \in AuthHeaders}}

\* The state in which the requests q have arrived (NoRequest: none) under
\* the configured key, with upstream u and host h.
Arrived(key, q, u, h) ==
  /\ API_KEY = key
  /\ request = q
  /\ upstream = u
  /\ host = h
  /\ client = [r \in Requests |-> "connected"]
  /\ pc = [r \in Requests |-> IF q[r] = NoRequest THEN "absent" ELSE "recv"]
  /\ response = [r \in Requests |-> NoResponse]
  /\ calls = [r \in Requests |-> <<>>]
  /\ session = [r \in Requests |-> NoSession]
  /\ signed = [r \in Requests |-> NotSigned]
  /\ reader = [r \in Requests |->
                 [state |-> "none", pos |-> 0, releases |-> 0,
                  midline |-> FALSE]]
  /\ cs = [r \in Requests |->
             [buffer |-> "", lines |-> <<>>, fullAssistantContent |-> "",
              chunk |-> "", exit |-> "none"]]
  /\ yielded = [r \in Requests |-> <<>>]
  /\ writes = [r \in Requests |-> <<>>]
  /\ chunks = [r \in Requests |-> <<>>]

\* Request 1 alone.
Alone(x, none) == [r \in Requests |-> IF r = 1 THEN x ELSE none]

\* One request arrives: any of the cases above.
Init ==
  \E c \in StreamCases \cup FailCases \cup AuthCases \cup BootCases
             \cup MessageCases \cup FieldCases :
    Arrived(c[1], Alone(c[2], NoRequest), Alone(c[3], NoUpstream),
            Alone(DefaultHost, DefaultHost))

Spec == Init /\ [][Next]_vars


(***************************************************************************)
(* The signer on its own: two requests about to sign, over every pair of   *)
(* inputs to generateZaSignature.                                          *)
(***************************************************************************)
SignInputs ==
  [prompt     : {"Hello", " Hello ", "Hi"},
   token      : {GuestToken, "h.eyJpZCI6InUifQ.t"},
   user_id    : {"u", "v"},
   now        : {300001, 599999, 600001},
   request_id : {"r1", "r2"}]

\* Both requests stand before line 355 of chatStream with the inputs in.
InitSign ==
  \E a \in SignInputs, b \in SignInputs :
    LET in == <<a, b>>
    IN /\ API_KEY = ""
       /\ request = [r \in Requests |-> ChatReq(GoodAuth, in[r].prompt)]
       /\ upstream = [r \in Requests |-> UpstreamWith(Answer(200, ""))]
       /\ host = [r \in Requests |->
                    [now |-> in[r].now, request_id |-> in[r].request_id,
                     chat_id |-> "c1"]]
       /\ client = [r \in Requests |-> "connected"]
       /\ pc = [r \in Requests |-> "sign"]
       /\ response = [r \in Requests |-> StreamResponse]
       /\ calls = [r \in Requests |->
                     <<"GET /", "GET /api/v1/auths/",
                       "POST /api/v1/auths/guest">>]
       /\ session = [r \in Requests |->
                       [NewSession("c1", "prod-fe-1.0.200") EXCEPT
                          !.token = in[r].token,
                          !.user_id = in[r].user_id,
                          !.messages = <<UserMsg(in[r].prompt)>>]]
       /\ signed = [r \in Requests |-> NotSigned]
       /\ reader = [r \in Requests |->
                      [state |-> "none", pos |-> 0, releases |-> 0,
                       midline |-> FALSE]]
       /\ cs = [r \in Requests |->
                  [buffer |-> "", lines |-> <<>>, fullAssistantContent |-> "",
                   chunk |-> "", exit |-> "none"]]
       /\ yielded = [r \in Requests |-> <<>>]
       /\ writes = [r \in Requests |-> <<>>]
       /\ chunks = [r \in Requests |-> <<>>]

NextSign == \E r \in Requests : GenerateZaSignature(r)

SpecSign == InitSign /\ [][NextSign]_vars


(***************************************************************************)
(* Properties of chatStream and of the transcript.                         *)
(***************************************************************************)
\* The in-order concatenation of a sequence of deltas.
RECURSIVE Concat(_)
Concat(ds) ==
  IF ds = <<>> THEN "" ELSE Concat(SubSeq(ds, 1, Len(ds) - 1)) \o ds[Len(ds)]

\* The deltas of the lines `lines` handled in order, up to the sentinel.
RECURSIVE DeltasOf(_)
RECURSIVE DeltasAfter(_, _)
DeltasAfter(res, rest) ==
  IF res.kind = "done" THEN <<>>
  ELSE IF res.kind = "yield" THEN <<res.chunk>> \o DeltasOf(rest)
  ELSE DeltasOf(rest)

DeltasOf(lines) ==
  IF lines = <<>> THEN <<>>
  ELSE DeltasAfter(ProcessLine(Head(lines)), Tail(lines))

\* What chatStream emits when the upstream delivers text as a single chunk.
OneChunk(text) == DeltasOf(CompleteLines(Split(text, "\n")))

\* chatStream has ended without an error: at the upstream's close or at
\* the sentinel, and its finally block has run.
Completed(r) ==
  reader[r].state = "released" /\ cs[r].exit \in {"close", "done"}

\* The chat call has been issued.
ChatCalled(r) ==
  \E i \in 1..Len(calls[r]) : calls[r][i] = "POST /api/v2/chat/completions"

\* session.messages, empty while there is no session.
Messages(r) ==
  IF "messages" \in DOMAIN session[r] THEN session[r].messages ELSE <<>>

UserEntry(r) == [role |-> "user", content |-> Prompt(request[r])]

AssistantEntry(r) == [role |-> "assistant", content |-> Concat(yielded[r])]

\* C1: however the upstream body is cut into chunks (also inside a line
\* and inside a JSON payload), the concatenation of the deltas chatStream
\* has emitted when it ends is the concatenation it emits for the same
\* body delivered as one chunk.
C1_ChunkingEquivalence ==
  \A r \in Requests :
    Completed(r) =>
      Concat(yielded[r]) = Concat(OneChunk(upstream[r].chat.text))

\* A body of two deltas has been read to its end in chunks one of which
\* ended inside a JSON payload.
C1_CutInsidePayload ==
  \E r \in Requests :
    /\ Completed(r)
    /\ reader[r].midline
    /\ yielded[r] = <<"Hi", " there">>

\* C2: once chatStream has handled a line equal to `data: [DONE]`, no delta
\* is emitted, no later line of the chunk is handled and no further chunk
\* is read.
C2_NothingAfterDone ==
  [][\A r \in Requests :
       cs[r].exit = "done" =>
         /\ yielded'[r] = yielded[r]
         /\ cs'[r].lines = cs[r].lines
         /\ reader'[r].pos = reader[r].pos
         /\ cs'[r].exit = "done"]_vars

\* The sentinel was followed by a further line of the same chunk, which
\* the finished request has left alone.
C2_LinesLeftAfterDone ==
  \E r \in Requests :
    /\ cs[r].exit = "done"
    /\ pc[r] = "done"
    /\ cs[r].lines # <<>>

\* C3 (amended): the transcript holds the user entry before the chat call
\* is issued; it holds no assistant entry while the stream is being read;
\* and once the stream has ended (upstream close, sentinel, or an error or
\* abandonment partway) it holds exactly one assistant entry, the
\* concatenation of the deltas emitted, if at least one delta was emitted,
\* and none otherwise.
C3_Transcript ==
  \A r \in Requests :
    /\ ChatCalled(r) => Messages(r) # <<>> /\ Messages(r)[1] = UserEntry(r)
    /\ reader[r].state # "released" =>
         \A i \in 1..Len(Messages(r)) : Messages(r)[i].role # "assistant"
    /\ reader[r].state = "released" =>
         Messages(r) = IF yielded[r] = <<>> THEN <<UserEntry(r)>>
                       ELSE <<UserEntry(r), AssistantEntry(r)>>

\* The read failed after one delta, and the transcript holds that delta
\* as the reply.
C3_PartialReplyRecorded ==
  \E r \in Requests :
    /\ reader[r].state = "released"
    /\ cs[r].exit = "error"
    /\ yielded[r] = <<"Hi">>
    /\ Messages(r) = <<UserEntry(r), [role |-> "assistant", content |-> "Hi"]>>

\* C3 as stated: after the stream has ended the transcript holds exactly
\* one assistant entry, also for a stream without deltas.
C3_AlwaysOneAssistantEntry ==
  \A r \in Requests :
    reader[r].state = "released" =>
      Messages(r) = <<UserEntry(r), AssistantEntry(r)>>

\* C4 as stated: on each of the three paths a chat call that fails (no
\* network, or a status that is not 2xx) is answered 500 with a JSON
\* error body.
C4_FailedCallAnswered500 ==
  \A r \in Requests :
    (pc[r] = "done" /\ ChatCalled(r) /\ ~Ok(upstream[r].chat)) =>
      /\ response[r].status = 500
      /\ response[r].kind = "json"
      /\ "error" \in DOMAIN response[r]


(***************************************************************************)
(* Properties of the middleware and of the two completion endpoints.       *)
(***************************************************************************)
\* The middleware has decided on request r, which is not for the root path.
Screened(r) == pc[r] \notin {"absent", "recv"} /\ request[r].path # "/"

\* The answer to r is a 401 with a JSON error body, and nothing was fetched.
Refused(r) ==
  /\ response[r].status = 401
  /\ response[r].kind = "json"
  /\ response[r].error # ""
  /\ calls[r] = <<>>

\* text is a credential the server accepts under the configured key.
Credential(text, key) ==
  text # "" /\ StartsWith(text, "sk-") /\ (key = "" \/ text = key)

\* C5 (amended): on every path other than `/` a request is admitted if and
\* only if the Authorization header is present, begins with `Bearer `, and
\* the text after the prefix, with surrounding white space removed, is not
\* empty, starts with `sk-` and, when a key is configured, equals that key;
\* every other request gets 401 with a JSON error.  With no key configured
\* `Bearer sk-a` is admitted; a missing header and `Bearer abc` are refused.
C5_Admission ==
  \A r \in Requests :
    Screened(r) =>
      LET h == request[r].auth
      IN /\ IF /\ h.present
               /\ StartsWith(h.value, "Bearer ")
               /\ Credential(Trim(Slice(h.value, 7)), API_KEY)
            THEN response[r].status # 401
            ELSE Refused(r)
         /\ (API_KEY = "" /\ h = Header("Bearer sk-a")) =>
              response[r].status # 401
         /\ (h = NoHeader \/ h = Header("Bearer abc")) => Refused(r)

\* A key that follows the prefix after a second space has passed the
\* middleware under the same configured key, and the chat was served.
C5_PaddedKeyAdmitted ==
  \E r \in Requests :
    /\ API_KEY = "sk-a"
    /\ request[r].auth = Header("Bearer  sk-a")
    /\ IsChat(request[r])
    /\ pc[r] = "done"
    /\ response[r] = StreamResponse

\* C5 as stated: the text after the prefix, as it stands, must start with
\* `sk-` and equal the configured key.
C5_ExactTextAfterPrefix ==
  \A r \in Requests :
    Screened(r) =>
      LET h == request[r].auth
      IN IF /\ h.present
            /\ StartsWith(h.value, "Bearer ")
            /\ Credential(Slice(h.value, 7), API_KEY)
         THEN response[r].status # 401
         ELSE Refused(r)

\* C6: GET / is never refused and is answered 200 with the liveness text,
\* whatever the Authorization header and the configured key.
C6_HealthCheckOpen ==
  \A r \in Requests :
    IsHealth(request[r]) =>
      /\ response[r].status # 401
      /\ pc[r] \in {"recv", "route", "done"}
      /\ pc[r] = "done" =>
           /\ response[r].status = 200
           /\ response[r].kind = "text"
           /\ response[r].text =
                "Cloudflare Worker for Z.AI Chat API is running!"

\* GET / was answered 200 to a request whose key is not the configured one.
C6_WrongKeyAnswered ==
  \E r \in Requests :
    /\ IsHealth(request[r])
    /\ API_KEY = "sk-a"
    /\ request[r].auth = Header("Bearer abc")
    /\ pc[r] = "done"
    /\ response[r].status = 200

\* The first choice of the JSON payload of the SSE frame w.
FrameChoice(w) ==
  IF StartsWith(w, "data: ") /\ Sub(w, Len(w) - 1, Len(w)) = "\n\n"
  THEN GetFirst(GetProp(JSON_parse(Sub(w, 7, Len(w) - 2)), "choices"))
  ELSE Thrown

\* w is the frame of the delta d: finish_reason null, d as content.
IsDeltaFrame(w, d) ==
  /\ GetProp(FrameChoice(w), "finish_reason") = JNull
  /\ GetProp(GetProp(FrameChoice(w), "delta"), "content") = JStr(d)
  /\ GetProp(GetProp(FrameChoice(w), "delta"), "role") = JStr("assistant")

\* w is a frame with finish_reason "stop" and an empty delta.
IsStopFrame(w) ==
  /\ GetProp(FrameChoice(w), "finish_reason") = JStr("stop")
  /\ GetProp(FrameChoice(w), "delta") = JObj(<<>>)

\* The first n writes to r are the frames of the first n deltas, in order.
DeltaFramesFirst(r, n) ==
  \A i \in 1..n : IsDeltaFrame(writes[r][i], yielded[r][i])

\* C7 (amended): in OpenAI streaming mode the writes are at any time the
\* frames of the deltas emitted so far, in order, then at most one frame
\* with finish_reason "stop", then at most one `data: [DONE]`, and nothing
\* after it; and when chatStream has ended without an error and no write
\* was refused, exactly one stop frame and exactly one `data: [DONE]`, the
\* last write, follow the delta frames, also for a stream without deltas.
C7_FrameOrder ==
  \A r \in Requests :
    Mode(request[r]) = "oai_stream" =>
      LET n == Len(writes[r])
          d == Len(yielded[r])
      IN /\ n <= d + 2
         /\ DeltaFramesFirst(r, IF n < d THEN n ELSE d)
         /\ n > d => IsStopFrame(writes[r][d + 1]) /\ Completed(r)
         /\ n > d + 1 => writes[r][d + 2] = "data: [DONE]\n\n"
         /\ (pc[r] = "done" /\ Completed(r) /\ client[r] = "connected") =>
              n = d + 2

\* A stream of two deltas was served in full: two delta frames, the stop
\* frame and the done signal.
C7_TwoDeltasServed ==
  \E r \in Requests :
    /\ Mode(request[r]) = "oai_stream"
    /\ pc[r] = "done"
    /\ yielded[r] = <<"Hi", " there">>
    /\ Len(writes[r]) = 4

\* C7 as stated: for every stream that was opened, with the client taking
\* every write, the finished request has written the delta frames, one
\* stop frame and one `data: [DONE]`.
C7_EveryStreamClosedByDone ==
  \A r \in Requests :
    (/\ Mode(request[r]) = "oai_stream"
     /\ pc[r] = "done"
     /\ reader[r].state = "released"
     /\ client[r] = "connected") =>
      /\ Len(writes[r]) = Len(yielded[r]) + 2
      /\ IsStopFrame(writes[r][Len(yielded[r]) + 1])
      /\ writes[r][Len(yielded[r]) + 2] = "data: [DONE]\n\n"

\* C8: the JSON response of the non-streaming mode carries, in its only
\* choice, the in-order concatenation of all deltas emitted as content,
\* the role "assistant" and the finish_reason "stop".
C8_AggregatedContent ==
  \A r \in Requests :
    (Mode(request[r]) = "oai_json" /\ "completion" \in DOMAIN response[r]) =>
      LET choices == response[r].completion.choices
      IN /\ response[r].status = 200
         /\ Len(choices) = 1
         /\ choices[1].message.content = Concat(yielded[r])
         /\ choices[1].message.role = "assistant"
         /\ choices[1].finish_reason = "stop"

\* The deltas "Hi" and " there" were answered as "Hi there".
C8_HiThere ==
  \E r \in Requests :
    /\ Mode(request[r]) = "oai_json"
    /\ pc[r] = "done"
    /\ yielded[r] = <<"Hi", " there">>
    /\ "completion" \in DOMAIN response[r]
    /\ response[r].completion.choices[1].message.content = "Hi there"

\* The delta an upstream line carries, as the upstream writes it: a line
\* with a non-empty delta_content carries that, a line without one the
\* non-empty content of its first choice, every other line none.
Carried(line) ==
  IF line = LineDelta THEN <<"Hi">>
  ELSE IF line = LineChoice THEN <<" there">>
  ELSE IF line = LineBoth THEN <<"A">>
  ELSE IF line = LineEmptyDelta THEN <<"B">>
  ELSE <<>>

\* The deltas carried by the lines before the first sentinel.
RECURSIVE CarriedBy(_)
CarriedBy(lines) ==
  IF lines = <<>> \/ Head(lines) = LineDone THEN <<>>
  ELSE Carried(Head(lines)) \o CarriedBy(Tail(lines))

\* The complete lines of the body the upstream answers r with.
BodyLines(r) == CompleteLines(Split(upstream[r].chat.text, "\n"))

\* C9: a `data: ` line that is no valid JSON, or whose value cannot be read
\* for a delta, neither ends the stream nor adds a delta: a stream that has
\* ended has emitted exactly the deltas of the well-formed lines before
\* the sentinel, in order, those after a malformed line included, and it
\* has ended at the sentinel only if the body holds one.
C9_MalformedLineSkipped ==
  \A r \in Requests :
    /\ Completed(r) => yielded[r] = CarriedBy(BodyLines(r))
    /\ cs[r].exit = "done" =>
         \E i \in 1..Len(BodyLines(r)) : BodyLines(r)[i] = LineDone

\* A delta, a line cut inside its JSON and a further delta were read to
\* the upstream's close, and both deltas were emitted.
C9_DeltaAfterCutLine ==
  \E r \in Requests :
    /\ BodyLines(r) = <<LineDelta, LineCutJson, LineChoice>>
    /\ Completed(r)
    /\ cs[r].exit = "close"
    /\ yielded[r] = <<"Hi", " there">>


(***************************************************************************)
(* Properties of the signer.                                               *)
(***************************************************************************)
\* Both requests have signed.
BothSigned == \A r \in Requests : signed[r] # NotSigned

\* The five inputs of request r's signature.
SignedPrompt(r)    == Prompt(request[r])
SignedToken(r)     == session[r].token
SignedUserId(r)    == session[r].user_id
SignedTime(r)      == host[r].now
SignedRequestId(r) == host[r].request_id

\* In how many of the five inputs requests 1 and 2 differ.
Differences ==
  Cardinality({i \in 1..5 :
     <<SignedPrompt(1), SignedToken(1), SignedUserId(1), SignedTime(1),
       SignedRequestId(1)>>[i]
     # <<SignedPrompt(2), SignedToken(2), SignedUserId(2), SignedTime(2),
         SignedRequestId(2)>>[i]})

\* C10 (amended): under one salt key, two signatures are equal if and only
\* if the prompts without their surrounding white space, the user ids, the
\* timestamps and the request ids are equal: signing the same inputs twice
\* gives the same signature, changing the user id, the timestamp, the
\* request id or the trimmed prompt gives another, and the token, which is
\* not part of the signed data, changes nothing.
C10_SignatureInputs ==
  BothSigned =>
    (signed[1].signature = signed[2].signature
       <=> /\ Trim(SignedPrompt(1)) = Trim(SignedPrompt(2))
           /\ SignedUserId(1) = SignedUserId(2)
           /\ SignedTime(1) = SignedTime(2)
           /\ SignedRequestId(1) = SignedRequestId(2))

\* Two requests that differ in the request id alone have signed, and their
\* signatures differ.
C10_RequestIdChangesSignature ==
  /\ BothSigned
  /\ Differences = 1
  /\ SignedRequestId(1) # SignedRequestId(2)
  /\ signed[1].signature # signed[2].signature

\* C10 as stated: the same five inputs give the same signature, and inputs
\* that differ in exactly one of the five give different signatures.
C10_AnyInputChangesSignature ==
  BothSigned =>
    /\ Differences = 0 => signed[1].signature = signed[2].signature
    /\ Differences = 1 => signed[1].signature # signed[2].signature

\* The key request r's signature was computed under: the per-window key.
BucketKey(r) == signed[r].signature.key

\* C11: under one secret, two millisecond timestamps give the same
\* per-window key if and only if they lie in the same window of 300000 ms,
\* that is, have the same floor(timestamp / 300000).
C11_BucketKey ==
  BothSigned =>
    (BucketKey(1) = BucketKey(2)
       <=> SignedTime(1) \div 300000 = SignedTime(2) \div 300000)

\* The first and the last millisecond of one window were signed under the
\* same key.
C11_SameWindowSameKey ==
  /\ BothSigned
  /\ SignedTime(1) = 300001
  /\ SignedTime(2) = 599999
  /\ BucketKey(1) = BucketKey(2)

\* How many calls request r has made to endpoint e.
CallsTo(r, e) == Cardinality({i \in 1..Len(calls[r]) : calls[r][i] = e})

LandingCall == "GET /"
LookupCall  == "GET /api/v1/auths/"
GuestCall   == "POST /api/v1/auths/guest"
ChatCall    == "POST /api/v2/chat/completions"

\* initializeZChat has made its who-am-I call and has returned.
Returned(r) ==
  /\ CallsTo(r, LookupCall) > 0
  /\ pc[r] \notin {"auths", "guest"}

\* The who-am-I call of request r answers 2xx with a token.
LookupGaveToken(r) ==
  \E t \in {GuestToken, MemberToken, NumberMailToken, TwoPartToken,
            UnpaddableToken} :
    upstream[r].auths = Answer(200, TokenBody(t))

\* C12: once initializeZChat has returned, the guest registration has been
\* called if and only if the who-am-I call did not return a token: it is
\* called whenever that call failed (network error or non-2xx answer) or
\* answered without a token, and never when it returned one.
C12_GuestFallback ==
  \A r \in Requests :
    Returned(r) => (CallsTo(r, GuestCall) > 0 <=> ~LookupGaveToken(r))

\* What the bootstrap of request r can obtain, read off the upstream's
\* answers: the version on the landing page, the token of the who-am-I
\* call or else of the guest registration (when that was called), and the
\* identity inside the token.
ObtainableVersion(r) ==
  IF upstream[r].landing
       = Answer(200, "<script src=\"/prod-fe-1.0.200/app.js\">")
  THEN "prod-fe-1.0.200"
  ELSE "prod-fe-1.0.185"

ObtainableToken(r) ==
  IF LookupGaveToken(r)
  THEN CHOOSE t \in {GuestToken, MemberToken, NumberMailToken, TwoPartToken,
                     UnpaddableToken} :
         upstream[r].auths = Answer(200, TokenBody(t))
  ELSE IF /\ CallsTo(r, GuestCall) > 0
          /\ upstream[r].guest = Answer(200, TokenBody(GuestToken))
  THEN GuestToken
  ELSE ""

ObtainableUserId(r) ==
  IF ObtainableToken(r) = GuestToken THEN "u"
  ELSE IF ObtainableToken(r) \in {MemberToken, NumberMailToken} THEN "w"
  ELSE ""

ObtainableUserName(r) ==
  IF ObtainableToken(r) = MemberToken THEN "a" ELSE "Guest"

\* C13: no failure of a bootstrap call (landing page, who-am-I, guest
\* registration, token decode) aborts the request: while initializeZChat
\* runs no response is made, it returns a session whose conversation id is
\* the fresh one and whose version, token, user id and user name are what
\* the upstream gave, or else the default version, the empty token, the
\* empty user id and the name Guest, and the handler goes on to the chat
\* call.
C13_BootstrapNeverAborts ==
  \A r \in Requests :
    /\ pc[r] \in {"scrape", "auths", "guest", "init_done"}
         => response[r] = NoResponse
    /\ Returned(r) =>
         /\ session[r].chat_id = host[r].chat_id
         /\ session[r].fe_version = ObtainableVersion(r)
         /\ session[r].token = ObtainableToken(r)
         /\ session[r].user_id = ObtainableUserId(r)
         /\ session[r].user_name = ObtainableUserName(r)
         /\ session[r].salt_key = DefaultSaltKey
    /\ (pc[r] = "done" /\ calls[r] # <<>>) => ChatCalled(r)

\* Every bootstrap call of request 1 failed, and the session it went on
\* with holds the defaults.
C13_AllBootstrapCallsFailed ==
  /\ upstream[1].landing = NetworkError
  /\ upstream[1].auths = Answer(401, "")
  /\ upstream[1].guest = NetworkError
  /\ ChatCalled(1)
  /\ session[1].token = ""
  /\ session[1].user_id = ""
  /\ session[1].fe_version = "prod-fe-1.0.185"

Endpoints == {LandingCall, LookupCall, GuestCall, ChatCall}

\* C14: within one request every upstream endpoint (landing page, who-am-I,
\* guest registration, chat completions) is called at most once, on every
\* path, failures included; no call is repeated and no other endpoint is
\* called.
C14_EachEndpointAtMostOnce ==
  \A r \in Requests :
    /\ \A i \in 1..Len(calls[r]) : calls[r][i] \in Endpoints
    /\ \A e \in Endpoints : CallsTo(r, e) <= 1

\* Request 1 ended after a who-am-I call that was refused, a guest
\* registration that failed and a chat call that could not be made, each
\* endpoint called once.
C14_FailuresNotRetried ==
  /\ pc[1] = "done"
  /\ upstream[1].auths = Answer(401, "")
  /\ upstream[1].guest = Answer(500, "")
  /\ upstream[1].chat = NetworkError
  /\ \A e \in Endpoints : CallsTo(1, e) = 1

(***************************************************************************)
(* Two requests in flight at once, their steps interleaved in every order. *)
(***************************************************************************)
\* The upstream as the second request meets it: the who-am-I call knows
\* the caller.
MemberUpstream(chat) ==
  [landing |-> Answer(200, "<script src=\"/prod-fe-1.0.200/app.js\">"),
   auths   |-> Answer(200, TokenBody(MemberToken)),
   guest   |-> Answer(500, ""),
   chat    |-> chat]

SecondHost == [now |-> 600001, request_id |-> "r2", chat_id |-> "c2"]

\* Pairs of requests with their upstreams: two streams with different
\* prompts and deltas; a completion beside a health check; an unknown
\* route beside a chat whose upstream only sends the sentinel.
PairCases ==
  {<< <<ChatReq(GoodAuth, "Hello"),
        UpstreamWith(Answer(200, Body(<<LineDelta>>)))>>,
      <<CompletionsReq(GoodAuth, <<UserMsg("Think")>>, TRUE),
        MemberUpstream(Answer(200, Body(<<LineChoice>>)))>> >>,
   << <<CompletionsReq(GoodAuth, <<UserMsg("Hello")>>, FALSE),
        UpstreamWith(Answer(200, Body(<<LineDelta>>)))>>,
      <<Req("GET", "/", NoHeader, EmptyBody), NoUpstream>> >>,
   << <<Req("POST", "/nothing", GoodAuth, EmptyBody), NoUpstream>>,
      <<ChatReq(GoodAuth, "Bye"),
        MemberUpstream(Answer(200, Body(<<LineDone>>)))>> >>}

InitPair ==
  \E c \in PairCases :
    Arrived("", [r \in Requests |-> c[r][1]], [r \in Requests |-> c[r][2]],
            [r \in Requests |-> IF r = 1 THEN DefaultHost ELSE SecondHost])

SpecPair == InitPair /\ [][Next]_vars

\* a is b or the beginning of b.
IsPrefix(a, b) == Len(a) <= Len(b) /\ a = SubSeq(b, 1, Len(a))

\* The deltas the upstream of request r sends, and their concatenations.
OwnDeltas(r) == CarriedBy(BodyLines(r))

OwnTexts(r) ==
  {Concat(SubSeq(OwnDeltas(r), 1, n)) : n \in 0..Len(OwnDeltas(r))}

\* What the client of request r is sent holds r's own deltas only.
OwnOutputOnly(r) ==
  /\ IsPrefix(yielded[r], OwnDeltas(r))
  /\ IsPrefix(chunks[r], OwnDeltas(r))
  /\ \A i \in 1..Len(writes[r]) :
       IF Mode(request[r]) = "chat"
       THEN writes[r][i] = OwnDeltas(r)[i]
       ELSE \/ writes[r][i] = DoneFrame
            \/ IsStopFrame(writes[r][i])
            \/ \E j \in 1..Len(OwnDeltas(r)) :
                 IsDeltaFrame(writes[r][i], OwnDeltas(r)[j])
  /\ response[r].kind = "json" /\ response[r].status = 200 =>
       response[r].completion.choices[1].message.content \in OwnTexts(r)

\* The session of request r holds what r's own bootstrap obtained, and its
\* transcript r's own prompt and r's own deltas.
OwnSessionOnly(r) ==
  session[r] # NoSession =>
    /\ session[r].chat_id = host[r].chat_id
    /\ Returned(r) => session[r].token = ObtainableToken(r)
    /\ \/ Messages(r) = <<>>
       \/ Messages(r) = <<UserEntry(r)>>
       \/ /\ Len(Messages(r)) = 2
          /\ Messages(r)[1] = UserEntry(r)
          /\ Messages(r)[2].role = "assistant"
          /\ Messages(r)[2].content \in OwnTexts(r)
    /\ session[r].use_thinking => Prompt(request[r]) = "Think"

\* A step that writes the session of request r is a step of r, and leaves
\* the other request's session, transcript and output alone.
OwnStepOnly(r) ==
  session'[r] # session[r] =>
    /\ pc'[r] # pc[r]
    /\ \A o \in Requests \ {r} :
         /\ pc'[o] = pc[o]
         /\ session'[o] = session[o]
         /\ yielded'[o] = yielded[o]
         /\ writes'[o] = writes[o]
         /\ chunks'[o] = chunks[o]
         /\ response'[o] = response[o]

\* C15: with two requests in flight and their steps interleaved in any
\* order, each request's session is written only by that request's own
\* steps, and its transcript and what its client is sent hold only its own
\* prompt and the deltas of its own upstream stream.
C15_RequestsIsolated ==
  /\ [](\A r \in Requests : OwnOutputOnly(r) /\ OwnSessionOnly(r))
  /\ [][\A r \in Requests : OwnStepOnly(r)]_vars

\* Both streams have ended, each with its own delta served and recorded.
C15_BothStreamsServed ==
  /\ pc[1] = "done" /\ pc[2] = "done"
  /\ writes[1] = <<"Hi">>
  /\ Len(writes[2]) = 3
  /\ IsDeltaFrame(writes[2][1], " there")
  /\ Messages(1) = <<UserMsg("Hello"), [role |-> "assistant", content |-> "Hi"]>>
  /\ Messages(2)
       = <<UserMsg("Think"), [role |-> "assistant", content |-> " there"]>>

\* The read loop of request r has ended: by the upstream's close, the
\* sentinel, a read error, or the consumer giving up.
LoopEnded(r) == cs[r].exit \in {"close", "done", "error", "abort"}

\* C16: once chatStream has acquired the reader of the upstream body, the
\* lock is released exactly once however the read loop ends (upstream
\* close, the sentinel, a read error, the consumer ending early): never
\* twice, and once the task has left chatStream it has been released; no
\* read is made after the release.
C16_ReaderReleasedOnce ==
  /\ [](\A r \in Requests :
          /\ reader[r].releases <= 1
          /\ reader[r].state = "released" <=> reader[r].releases = 1
          /\ reader[r].state = "none" => reader[r].releases = 0
          /\ (reader[r].state # "none" /\ LoopEnded(r)
                /\ pc[r] \in {"done", "finish", "senddone", "respond"})
               => reader[r].releases = 1
          /\ (reader[r].state # "none"
                /\ pc[r] \in {"done", "finish", "senddone", "respond"})
               => LoopEnded(r))
  /\ [][\A r \in Requests :
          reader[r].state = "released" => reader'[r] = reader[r]]_vars

\* The consumer of request 1 gave up after a delta, with upstream lines
\* still unread, and the lock was released once.
C16_ReleasedAfterConsumerLeft ==
  /\ cs[1].exit = "abort"
  /\ pc[1] = "done"
  /\ reader[1].pos < Len(upstream[1].chat.text)
  /\ reader[1].state = "released"
  /\ reader[1].releases = 1

\* The least number of groups of 4 that hold n characters.
GroupsOfFour(n) == CHOOSE k \in 0..n : 4 * k >= n /\ 4 * (k - 1) < n

\* The sum of GroupsOfFour over the contents of the messages.
RECURSIVE GroupsOfFourIn(_)
GroupsOfFourIn(messages) ==
  IF messages = <<>> THEN 0
  ELSE GroupsOfFour(Len(messages[1].content)) + GroupsOfFourIn(Tail(messages))

\* C17: in the non-streaming response usage.completion_tokens is the
\* content's length divided by 4 and rounded up, usage.prompt_tokens the sum
\* over all request messages of the message content's length divided by 4
\* and rounded up, and usage.total_tokens their sum.
C17_UsageCounts ==
  \A r \in Requests :
    (Mode(request[r]) = "oai_json" /\ "completion" \in DOMAIN response[r]) =>
      LET usage   == response[r].completion.usage
          content == response[r].completion.choices[1].message.content
      IN /\ usage.completion_tokens = GroupsOfFour(Len(content))
         /\ usage.prompt_tokens = GroupsOfFourIn(request[r].body.messages)
         /\ usage.total_tokens = usage.prompt_tokens + usage.completion_tokens

\* A reply of 2 characters to the messages "abcd", "abcde" and "a" was
\* counted as 1 completion token and 1 + 2 + 1 prompt tokens.
C17_ThreeMessagesCounted ==
  /\ "completion" \in DOMAIN response[1]
  /\ request[1].body.messages
       = <<UserMsg("abcd"), UserMsg("abcde"), UserMsg("a")>>
  /\ response[1].completion.choices[1].message.content = "Hi"
  /\ response[1].completion.usage
       = [prompt_tokens |-> 4, completion_tokens |-> 1, total_tokens |-> 5]

\* The contents of the model's messages that hold the word search, and
\* those that hold the word think, in any mix of upper and lower case.
ContentsWithSearch == {"Please SEARCH it", "research"}
ContentsWithThink  == {"I Think so", "rethinking", "Think"}

\* Some message of request r has its content in the set.
SomeContentIn(r, contents) ==
  \E i \in 1..Len(request[r].body.messages) :
    request[r].body.messages[i].content \in contents

\* The last element of the messages of request r.
LastMessage(r) ==
  request[r].body.messages[Len(request[r].body.messages)]

CallOrders ==
  {<<LandingCall, LookupCall, ChatCall>>,
   <<LandingCall, LookupCall, GuestCall, ChatCall>>}

\* C19: the upstream calls of one request are made one after another in
\* the fixed order landing page, who-am-I, guest registration (if made),
\* chat completions: the calls made so far are always the beginning of
\* that order, a step adds at most one call to the end of them, and the
\* chat call is added only once initializeZChat has returned a session.
C19_CallsInOrder ==
  /\ [](\A r \in Requests : \E o \in CallOrders : IsPrefix(calls[r], o))
  /\ [][\A r \in Requests :
          /\ IsPrefix(calls[r], calls'[r])
          /\ Len(calls'[r]) <= Len(calls[r]) + 1
          /\ (ChatCalled(r)' /\ ~ChatCalled(r)) =>
               /\ Returned(r)
               /\ session[r] # NoSession
               /\ pc[r] \notin {"scrape", "auths", "guest", "init_done"}]_vars

\* Request 1 called all four endpoints, the guest registration third.
C19_FourCallsInOrder ==
  calls[1] = <<LandingCall, LookupCall, GuestCall, ChatCall>>

\* C20: each well-formed `data: ` line gives at most one delta and never
\* an empty one: the data field's delta_content when that is not empty,
\* otherwise the content of the first choice's delta when that is not
\* empty, otherwise nothing (whenever a delta has just been emitted, the
\* deltas so far are those the lines handled so far carry, in order); and
\* the accumulated assistant text is at any time the concatenation of the
\* deltas emitted so far, in order.
C20_OneDeltaPerLine ==
  \A r \in Requests :
    /\ \A i \in 1..Len(yielded[r]) : yielded[r][i] # ""
    /\ cs[r].fullAssistantContent = Concat(yielded[r])
    /\ pc[r] = "yield" => IsPrefix(yielded[r], CarriedBy(BodyLines(r)))

\* A line with both fields gave its delta_content alone, and a line whose
\* delta_content is empty the content of its first choice.
C20_DataFieldPreferred ==
  /\ upstream[1].chat.text = Body(<<LineBoth, LineEmptyDelta>>)
  /\ Completed(1)
  /\ yielded[1] = <<"A", "B">>
  /\ cs[1].fullAssistantContent = "AB"

\* The deltas of the lines that a "\n" follows, for the bodies the upstream
\* closes in the middle of a line.
BeforeLastNewline(text) ==
  IF text = Unterminated(<<LineDelta>>) THEN <<>>
  ELSE IF text = Unterminated(<<LineDelta, LineChoice>>) THEN <<"Hi">>
  ELSE IF text = Unterminated(<<LineDelta, LineDone>>) THEN <<"Hi">>
  ELSE <<>>

\* C21: the text left in the line buffer when the upstream closes, a last
\* line that no "\n" follows, is dropped unparsed: for a body that ends in
\* such a line the deltas emitted are at any time among those of the lines
\* before it, the stream never ends at a sentinel that stands in it, and
\* at the close the deltas are exactly those of the lines before it while
\* the last line still lies in the buffer.
C21_UnterminatedLineDropped ==
  \A r \in Requests :
    (reader[r].state # "none" /\ upstream[r].chat.text \in CutBodies) =>
      /\ IsPrefix(yielded[r], BeforeLastNewline(upstream[r].chat.text))
      /\ cs[r].exit # "done"
      /\ cs[r].exit = "close" =>
           /\ yielded[r] = BeforeLastNewline(upstream[r].chat.text)
           /\ cs[r].buffer # ""
           /\ cs[r].buffer \in {LineDelta, LineChoice, LineDone}

\* The upstream closed after a sentinel that no "\n" followed: the stream
\* ended by the close, with the sentinel left in the buffer.
C21_SentinelLeftInBuffer ==
  /\ upstream[1].chat.text = Unterminated(<<LineDelta, LineDone>>)
  /\ pc[1] = "done"
  /\ cs[1].exit = "close"
  /\ cs[1].buffer = LineDone
  /\ yielded[1] = <<"Hi">>

\* C22: a request that validateApiKey answered with 401 never reaches a
\* route handler: it has ended, no upstream call was made for it (landing
\* page, auth, chat), no session was created, nothing was signed, read or
\* written, and this stays so.
C22_RefusedRequestInert ==
  \A r \in Requests :
    response[r].status = 401 =>
      /\ pc[r] = "done"
      /\ calls[r] = <<>>
      /\ session[r] = NoSession
      /\ signed[r] = NotSigned
      /\ reader[r].state = "none"
      /\ yielded[r] = <<>>
      /\ writes[r] = <<>>

\* A POST /chat with a well-formed body but a key without the sk- prefix
\* was answered 401 with no call made and no session created.
C22_ChatRefusedWithoutCalls ==
  /\ request[1] = ChatReq(Header("Bearer abc"), "Hello")
  /\ API_KEY = ""
  /\ pc[1] = "done"
  /\ response[1].status = 401
  /\ calls[1] = <<>>
  /\ session[1] = NoSession

====
